---- MODULE Spec2Model ----
(***************************************************************************)
(* Model of the stdio tool server of scanner-service (playmcp):            *)
(*   - mcp/server.js      Server.connect / Server.handleInput              *)
(*   - server.js          tool registry and the callTool dispatcher        *)
(*   - controllers/playwright.js   PlaywrightController                    *)
(*                                                                         *)
(* The JavaScript event loop is modelled explicitly.  A stdin 'data' event *)
(* and the completion of a browser operation are macrotasks; the           *)
(* continuation of an async function after an await is a microtask.  The   *)
(* microtask queue (jobs) is FIFO and is drained before the next macrotask *)
(* runs.  The for-loop of the 'data' callback calls handleInput for each   *)
(* line without awaiting it, so the synchronous prefix of every handler of *)
(* a chunk runs before any continuation.                                   *)
(*                                                                         *)
(* Console messages, requests and native dialogs of a page, and SIGINT,    *)
(* are macrotasks as well.  The line framing of Server.connect is          *)
(* modelled a second time on the characters of stdin (StdinChunk); the     *)
(* other actions take whole lines.                                         *)
(*                                                                         *)
(* Not modelled: the debug log lines that log() prints when state.debug is *)
(* set, and the contents of the data a page operation returns.             *)
(***************************************************************************)
EXTENDS Integers, Sequences, FiniteSets, TLC

\* Bounds of the exploration.
MaxLines == 3
MaxChunk == 2
MaxToolLines == 2
MaxLegacyLines == 3
MaxEventLines == 3
MaxEvents == 1
MaxDialogs == 1
MaxSigints == 1
MaxSigintLines == 3
MaxStream == 5
MaxChunkLen == 3
\* The URLs of one scan request, which are scanned in parallel.
MaxUrls == 2
\* The POST /scan requests made to the scanner service.
MaxRequests == 1
\* The performDeepTargetedScan calls made on one HybridScanner.
MaxHybridCalls == 2
\* The performDeepTargetedScan calls made on the PlaywrightScanner singleton,
\* each for one URL.
MaxScannerCalls == 1
\* The lines of a client that takes screenshots.
MaxShotLines == 2
\* The deepest document that getElementHierarchy is called on, and the largest
\* maxDepth it is called with.
MaxDomDepth == 4
MaxDepthArg == 4
\* The links that page.evaluate returns for one page scanned by scanUrl.
MaxLinks == 1
\* The lines of a client that waits for texts and selectors.
MaxWaitLines == 3
\* The lines of a client that scrolls, and the largest scroll offsets of the
\* document on the two axes.
MaxScrollLines == 3
MaxScrollX == 1
MaxScrollY == 2

\* null / undefined
Null == 0

ToolNames ==
    << "openBrowser", "navigate", "type", "click",
       "moveMouse", "scroll", "screenshot", "getPageSource",
       "getPageText", "getPageTitle", "getPageUrl", "getScripts",
       "getStylesheets", "getMetaTags", "getLinks", "getImages",
       "getForms", "getElementContent", "getElementHierarchy", "executeJavaScript",
       "goForward", "hover", "dragAndDrop", "selectOption",
       "pressKey", "waitForText", "waitForSelector", "resize",
       "handleDialog", "getConsoleMessages", "getNetworkRequests", "uploadFiles",
       "evaluateWithReturn", "takeScreenshot", "mouseMove", "mouseClick",
       "mouseDrag", "closeBrowser" >>

ValidationText ==
    [ openBrowser |-> "",
      navigate |-> "URL is required",
      type |-> "Selector and text are required",
      click |-> "Selector is required",
      moveMouse |-> "X and Y coordinates are required",
      scroll |-> "X and Y scroll amounts are required",
      screenshot |-> "Path is required",
      getPageSource |-> "",
      getPageText |-> "",
      getPageTitle |-> "",
      getPageUrl |-> "",
      getScripts |-> "",
      getStylesheets |-> "",
      getMetaTags |-> "",
      getLinks |-> "",
      getImages |-> "",
      getForms |-> "",
      getElementContent |-> "Selector is required",
      getElementHierarchy |-> "",
      executeJavaScript |-> "JavaScript script is required",
      goForward |-> "",
      hover |-> "Selector is required",
      dragAndDrop |-> "Source and target selectors are required",
      selectOption |-> "Selector and values are required",
      pressKey |-> "Key is required",
      waitForText |-> "Text is required",
      waitForSelector |-> "Selector is required",
      resize |-> "Width and height are required",
      handleDialog |-> "Accept parameter is required",
      getConsoleMessages |-> "",
      getNetworkRequests |-> "",
      uploadFiles |-> "Selector and file paths are required",
      evaluateWithReturn |-> "JavaScript script is required",
      takeScreenshot |-> "Path is required",
      mouseMove |-> "X and Y coordinates are required",
      mouseClick |-> "X and Y coordinates are required",
      mouseDrag |-> "Start and end coordinates are required",
      closeBrowser |-> "" ]

SuccessText ==
    [ openBrowser |-> "Browser opened successfully",
      navigate |-> "Navigation successful",
      type |-> "Text entered successfully",
      click |-> "Click successful",
      moveMouse |-> "Mouse moved successfully",
      scroll |-> "Page scrolled successfully",
      screenshot |-> "Screenshot taken successfully",
      getPageSource |-> "<data>",
      getPageText |-> "<data>",
      getPageTitle |-> "<data>",
      getPageUrl |-> "<data>",
      getScripts |-> "<data>",
      getStylesheets |-> "<data>",
      getMetaTags |-> "<data>",
      getLinks |-> "<data>",
      getImages |-> "<data>",
      getForms |-> "<data>",
      getElementContent |-> "<data>",
      getElementHierarchy |-> "<data>",
      executeJavaScript |-> "<data>",
      goForward |-> "Navigated forward successfully",
      hover |-> "Hover completed successfully",
      dragAndDrop |-> "Drag and drop completed successfully",
      selectOption |-> "Option selected successfully",
      pressKey |-> "Key pressed successfully",
      waitForText |-> "Text found successfully",
      waitForSelector |-> "Selector found successfully",
      resize |-> "Browser resized successfully",
      handleDialog |-> "Dialog handler set successfully",
      getConsoleMessages |-> "<data>",
      getNetworkRequests |-> "<data>",
      uploadFiles |-> "Files uploaded successfully",
      evaluateWithReturn |-> "<data>",
      takeScreenshot |-> "Screenshot taken successfully",
      mouseMove |-> "Mouse moved successfully",
      mouseClick |-> "Mouse clicked successfully",
      mouseDrag |-> "Mouse drag completed successfully",
      closeBrowser |-> "Browser closed successfully" ]

FailMessage ==
    [ openBrowser |-> "Failed to launch browser",
      navigate |-> "Failed to navigate",
      type |-> "Failed to type text",
      click |-> "Failed to click",
      moveMouse |-> "Failed to move mouse",
      scroll |-> "Failed to scroll",
      screenshot |-> "Failed to take screenshot",
      getPageSource |-> "Failed to get page source",
      getPageText |-> "Failed to get page text",
      getPageTitle |-> "Failed to get page title",
      getPageUrl |-> "Failed to get page URL",
      getScripts |-> "Failed to get scripts",
      getStylesheets |-> "Failed to get stylesheets",
      getMetaTags |-> "Failed to get meta tags",
      getLinks |-> "Failed to get links",
      getImages |-> "Failed to get images",
      getForms |-> "Failed to get forms",
      getElementContent |-> "Failed to get element content",
      getElementHierarchy |-> "Failed to get element hierarchy",
      executeJavaScript |-> "Failed to execute JavaScript",
      goForward |-> "Failed to go forward",
      hover |-> "Failed to hover over element",
      dragAndDrop |-> "Failed to drag and drop",
      selectOption |-> "Failed to select option",
      pressKey |-> "Failed to press key",
      waitForText |-> "Text not found within timeout",
      waitForSelector |-> "Selector not found within timeout",
      resize |-> "Failed to resize viewport",
      handleDialog |-> "Failed to handle dialog",
      getConsoleMessages |-> "Failed to get console messages",
      getNetworkRequests |-> "Failed to get network requests",
      uploadFiles |-> "Failed to upload files",
      evaluateWithReturn |-> "Failed to evaluate JavaScript",
      takeScreenshot |-> "Failed to take screenshot",
      mouseMove |-> "Failed to move mouse",
      mouseClick |-> "Failed to click at coordinates",
      mouseDrag |-> "Failed to drag mouse",
      closeBrowser |-> "Failed to close browser" ]

Suggestion ==
    [ openBrowser |-> "Technical details: <cause>",
      navigate |-> "Check if the URL is valid and accessible",
      type |-> "Check if the input element exists and is editable",
      click |-> "Check if the element exists and is visible",
      moveMouse |-> "Check if coordinates are within viewport",
      scroll |-> "Check if scroll values are valid",
      screenshot |-> "Check if the path is writable and element exists (if capturing element)",
      getPageSource |-> "Check if the page is loaded",
      getPageText |-> "Check if the page is loaded",
      getPageTitle |-> "Check if the page is loaded",
      getPageUrl |-> "Check if the page is loaded",
      getScripts |-> "Check if the page is loaded",
      getStylesheets |-> "Check if the page is loaded",
      getMetaTags |-> "Check if the page is loaded",
      getLinks |-> "Check if the page is loaded",
      getImages |-> "Check if the page is loaded",
      getForms |-> "Check if the page is loaded",
      getElementContent |-> "Check if the element exists",
      getElementHierarchy |-> "Check if the selector exists",
      executeJavaScript |-> "Check if the JavaScript syntax is valid",
      goForward |-> "Check if there is a next page in history",
      hover |-> "Check if the selector exists and is visible",
      dragAndDrop |-> "Check if both selectors exist and are interactable",
      selectOption |-> "Check if the selector exists and values are valid",
      pressKey |-> "Check if the key name is valid",
      waitForText |-> "Check if the text appears on the page",
      waitForSelector |-> "Check if the selector appears on the page",
      resize |-> "Check if width and height are positive numbers",
      handleDialog |-> "Check if there is a dialog to handle",
      getConsoleMessages |-> "Browser console monitoring error",
      getNetworkRequests |-> "Network monitoring error",
      uploadFiles |-> "Check if selector is a file input and files exist",
      evaluateWithReturn |-> "Check if the script is valid JavaScript",
      takeScreenshot |-> "Check if the path is writable",
      mouseMove |-> "Check if coordinates are valid",
      mouseClick |-> "Check if coordinates are valid",
      mouseDrag |-> "Check if coordinates are valid",
      closeBrowser |-> "The browser might have already been closed" ]

\* The test that the dispatch case of a tool applies to its declared-required
\* arguments before it calls the controller:
\*   none     `required: []`, no test
\*   truthy   !args.x
\*   string   !args.x || typeof args.x !== 'string'
\*   number   typeof args.x !== 'number'
\*   boolean  typeof args.x !== 'boolean'
CheckKind ==
    [ openBrowser |-> "none",
      navigate |-> "string",
      type |-> "truthy",
      click |-> "truthy",
      moveMouse |-> "number",
      scroll |-> "number",
      screenshot |-> "truthy",
      getPageSource |-> "none",
      getPageText |-> "none",
      getPageTitle |-> "none",
      getPageUrl |-> "none",
      getScripts |-> "none",
      getStylesheets |-> "none",
      getMetaTags |-> "none",
      getLinks |-> "none",
      getImages |-> "none",
      getForms |-> "none",
      getElementContent |-> "truthy",
      getElementHierarchy |-> "none",
      executeJavaScript |-> "string",
      goForward |-> "none",
      hover |-> "truthy",
      dragAndDrop |-> "truthy",
      selectOption |-> "truthy",
      pressKey |-> "truthy",
      waitForText |-> "truthy",
      waitForSelector |-> "truthy",
      resize |-> "number",
      handleDialog |-> "boolean",
      getConsoleMessages |-> "none",
      getNetworkRequests |-> "none",
      uploadFiles |-> "truthy",
      evaluateWithReturn |-> "string",
      takeScreenshot |-> "truthy",
      mouseMove |-> "number",
      mouseClick |-> "number",
      mouseDrag |-> "number",
      closeBrowser |-> "none" ]

\* Classes of value given to the declared-required arguments of a call:
\*   absent     an argument is missing
\*   wrongtype  all are present, one has a value that is not of the declared
\*              type (a non-zero number for a string, a non-empty string for
\*              a number, a boolean or an array)
\*   valid      all are present with non-empty values of the declared type
ArgClasses ==
    {"absent", "wrongtype", "valid"}

\* Tools whose descriptor declares a non-empty `required` list.
HasRequired ==
    {"navigate", "type", "click", "moveMouse", "scroll", "screenshot",
     "getElementContent", "executeJavaScript", "hover", "dragAndDrop",
     "selectOption", "pressKey", "waitForText", "waitForSelector", "resize",
     "handleDialog", "uploadFiles", "evaluateWithReturn", "takeScreenshot",
     "mouseMove", "mouseClick", "mouseDrag"}

\* The test of the dispatch case lets the arguments through.
PassesCheck(kind, cls) ==
    CASE kind = "none" -> TRUE
      [] kind = "truthy" -> cls # "absent"
      [] OTHER -> cls = "valid"

\* Tools registered in the `tools` object.
Registered ==
    {ToolNames[i] : i \in 1..Len(ToolNames)}

\* The case labels of the switch of the callTool handler, in the order of the
\* switch.
CaseLabels ==
    << "openBrowser", "navigate", "type", "click",
       "moveMouse", "scroll", "screenshot", "getPageSource",
       "getPageText", "getPageTitle", "getPageUrl", "getScripts",
       "getStylesheets", "getMetaTags", "getLinks", "getImages",
       "getForms", "getElementContent", "getElementHierarchy", "executeJavaScript",
       "goForward", "hover", "dragAndDrop", "selectOption",
       "pressKey", "waitForText", "waitForSelector", "resize",
       "handleDialog", "getConsoleMessages", "getNetworkRequests", "uploadFiles",
       "evaluateWithReturn", "takeScreenshot", "mouseMove", "mouseClick",
       "mouseDrag", "closeBrowser" >>

\* A switch without the case 'mouseDrag'.
DispatchCases_WithoutMouseDrag ==
    {CaseLabels[i] : i \in 1..Len(CaseLabels)} \ {"mouseDrag"}

\* The names the switch has a case for; every other name takes default:.
DispatchCases ==
    {CaseLabels[i] : i \in 1..Len(CaseLabels)}

\* Tools whose controller method assigns currentMousePosition.
MouseTools ==
    {"moveMouse", "mouseMove", "mouseClick", "mouseDrag"}

\* Tools whose controller method registers a listener on the page.
ListenerTools ==
    {"handleDialog", "getConsoleMessages", "getNetworkRequests"}

\* Listener tools that return the array their listener pushes to.
DataListenerTools ==
    {"getConsoleMessages", "getNetworkRequests"}

\* Tools whose controller method has no await after the session check.
SyncTools ==
    ListenerTools \cup {"getPageUrl"}

\* Tools whose controller method tests `!this.isInitialized() || !this.state.page`;
\* the methods of the other tools test isInitialized() only and reach the page
\* through `this.state.page?.`.
PageChecked ==
    {"click", "scroll", "screenshot", "goForward", "hover", "dragAndDrop",
     "selectOption", "pressKey", "waitForText", "waitForSelector", "resize",
     "handleDialog", "getConsoleMessages", "getNetworkRequests", "uploadFiles",
     "evaluateWithReturn", "takeScreenshot", "mouseMove", "mouseClick", "mouseDrag"}

\* Sample coordinates for the mouse tools (all differ from the initial (0,0)).
Coords ==
    {<<1, 2>>, <<2, 1>>}

\* An argument that the client left out.
Undefined == -1

\* type and selector are the options of screenshot, "" when left out.
NoArgs ==
    [cls |-> "valid", debug |-> FALSE, pos |-> <<0, 0>>, accept |-> FALSE,
     timeout |-> Undefined, delta |-> <<0, 0>>, smooth |-> FALSE,
     type |-> "", selector |-> ""]

\* A screenshot that captures the viewport unless an element is asked for.
ScreenshotScope_ViewportByDefault(options) ==
    IF options.type = "element" /\ options.selector # "" THEN "element"
    ELSE "viewport"

\* What screenshot(options) captures: the element of options.selector, the
\* viewport (page.screenshot({path})) or the full page
\* (page.screenshot({path, fullPage: true})).
ScreenshotScope(options) ==
    IF options.type = "element" /\ options.selector # "" THEN "element"
    ELSE IF options.type = "viewport" THEN "viewport"
    ELSE "fullPage"

\* page.$(selector) finds an element: the pages of the model hold an element
\* for "#present" and none for any other selector.
ElementExists(selector) ==
    selector = "#present"

\* The tools that wait for something to appear on the page.
WaitTools ==
    {"waitForText", "waitForSelector"}

\* waitForText(text, timeout = 30000), waitForSelector(selector, timeout = 30000)
DefaultTimeout == 30000

\* The `timeout` that the controller passes to page.waitForSelector.
TimeoutOf(args) ==
    IF args.timeout = Undefined THEN DefaultTimeout ELSE args.timeout

\* page.waitForSelector(.., {timeout}) of Playwright rejects after `timeout`
\* milliseconds; a timeout of 0 disables the timer.
ArmsTimer(timeout) ==
    timeout # 0

\* The argument objects tried for a tool.  cls is the class of the values of
\* the declared-required arguments; debug is openBrowser's flag; pos is the
\* (end) point of a mouse tool; accept is handleDialog's flag.
ArgsFor(name) ==
    IF name = "openBrowser"
      THEN {[NoArgs EXCEPT !.debug = d] : d \in BOOLEAN}
    ELSE IF name \in MouseTools
      THEN {[NoArgs EXCEPT !.pos = p] : p \in Coords}
             \cup {[NoArgs EXCEPT !.cls = c] : c \in ArgClasses \ {"valid"}}
    ELSE IF name = "handleDialog"
      THEN {[NoArgs EXCEPT !.accept = a] : a \in BOOLEAN}
             \cup {[NoArgs EXCEPT !.cls = c] : c \in ArgClasses \ {"valid"}}
    ELSE IF name \in Registered /\ CheckKind[name] # "none"
      THEN {[NoArgs EXCEPT !.cls = c] : c \in ArgClasses}
    ELSE {NoArgs}

\* Kinds of input line that carry no tool name.
\*   badjson         text that JSON.parse rejects, without the substring "id"
\*   badjson_id      text that JSON.parse rejects, containing the substring "id"
\*   initialize, notif (notifications/initialized), list (tools/list)
\*   call_noparams   {"method":"tools/call","id":n}
\*   onlyid          {"id":n}
\*   unknown_method  {"method":"foo","id":n}
PlainKinds ==
    {"badjson", "badjson_id", "initialize", "notif", "list",
     "call_noparams", "onlyid", "unknown_method"}

Msg(kind, name, args) ==
    [kind |-> kind, name |-> name, args |-> args]

Messages(plain, callNames, legacyNames) ==
    {Msg(k, "", NoArgs) : k \in plain}
      \cup UNION {{Msg("call", n, a) : a \in ArgsFor(n)} : n \in callNames}
      \cup UNION {{Msg("legacy", n, a) : a \in ArgsFor(n)} : n \in legacyNames}

\* Tool names sent in the concurrent specification.
CallNames ==
    {"openBrowser", "closeBrowser", "getPageTitle", "moveMouse"}

\* Tool names sent in the protocol specification.
ProtocolNames ==
    {"getPageTitle", "noSuchTool"}

VARIABLES
    state,                  \* PlaywrightController.state
    currentMousePosition,   \* PlaywrightController.currentMousePosition
    listeners,              \* listeners registered on pages, in order
    live,                   \* browsers launched and not closed
    launched,               \* number of browsers launched so far
    handlers,               \* handleInput calls in flight, by line number
    jobs,                   \* microtask queue: line numbers of ready continuations
    lines,                  \* `lines` of the 'data' callback still to be looped over
    nlines,                 \* number of lines received so far
    stdout,                 \* responses written with console.log
    rejected,               \* lines whose handleInput promise was rejected
    pendingRejection,       \* an unhandled rejection awaits the end of the tick
    proc,                   \* "running", "crashed" (exit code 1) or "exited" (exit code 0)
    buffer,                 \* `buffer` of Server.connect: text after the last newline
    received,               \* all text that stdin has delivered so far
    dispatched,             \* the line texts handleInput was called with, in order
    dialogs,                \* per native dialog shown by a page: the accept values of
                            \* the accept() / dismiss() calls made on it, in order
    window,                 \* <<window.scrollX, window.scrollY>> of the page
    enhanced,               \* EnhancedTargetedScanner: one performDeepTargetedScan call
    service,                \* the Express scanner service: the file that runs and
                            \* its POST /scan requests
    hybrid,                 \* HybridScanner: scannerType, initializeScanner and the
                            \* performDeepTargetedScan calls
    scanner,                \* playwrightScanner, the PlaywrightScanner singleton: its
                            \* field `browser` and the performDeepTargetedScan calls
    hierarchy,              \* the getElementHierarchy call: its argument, the document
                            \* and the hierarchy returned
    deepScan                \* performDeepTargetedScan of the PlaywrightScanner of
                            \* build.sh: its urls, its result and its position

vars ==
    <<state, currentMousePosition, listeners, live, launched, handlers, jobs,
      lines, nlines, stdout, rejected, pendingRejection, proc,
      buffer, received, dispatched, dialogs, window, enhanced, service, hybrid,
      scanner, hierarchy, deepScan>>

\* The MCP server on stdin / stdout: Server and PlaywrightController.
mcp ==
    <<state, currentMousePosition, listeners, live, launched, handlers, jobs,
      lines, nlines, stdout, rejected, pendingRejection, proc,
      buffer, received, dispatched, dialogs, window>>

\* The scanner services, which share no state with the MCP server.
services ==
    <<enhanced, service, hybrid, scanner, hierarchy, deepScan>>

\* What an action of one scanner service leaves alone.
besidesEnhanced ==
    <<mcp, service, hybrid, scanner, hierarchy, deepScan>>

besidesService ==
    <<mcp, enhanced, hybrid, scanner, hierarchy, deepScan>>

besidesHybrid ==
    <<mcp, enhanced, service, scanner, hierarchy, deepScan>>

besidesScanner ==
    <<mcp, enhanced, service, hybrid, hierarchy, deepScan>>

besidesHierarchy ==
    <<mcp, enhanced, service, hybrid, scanner, deepScan>>

besidesDeepScan ==
    <<mcp, enhanced, service, hybrid, scanner, hierarchy>>

\* The text of stdin, as far as the actions on whole messages are concerned.
stdinText ==
    <<buffer, received, dispatched>>

EmptyState ==
    [browser |-> Null, context |-> Null, page |-> Null, debug |-> FALSE]

\* `result.aiInsights` as performDeepTargetedScan creates it.  A list is
\* recorded by its length.
EmptyInsights ==
    [toolOverview |-> "", teacherBenefits |-> 0, commonUseCases |-> 0,
     setupComplexity |-> "medium", bestFeatures |-> 0]

\* A deepScanSingleUrl call that was not made.
NoScan ==
    [pc |-> "idle", isProtected |-> FALSE]

\* The URL types of a scan request, in the order of `TargetedUrls`.
UrlTypeNames ==
    <<"main", "helpCenter", "tutorials", "videos", "integrations", "faq",
      "training", "api", "pricing">>

UrlTypes ==
    {UrlTypeNames[i] : i \in 1..MaxUrls}

\* EnhancedTargetedScanner before performDeepTargetedScan is called.
EnhancedInit ==
    [phase |-> "idle", scans |-> [u \in UrlTypes |-> NoScan], open |-> {},
     errors |-> <<>>, completion |-> "none", aiInsights |-> EmptyInsights]

\* A POST /scan request that was not made.
NoRequest ==
    [pc |-> "idle", key |-> "absent", url |-> "missing", engine |-> "absent",
     responses |-> <<>>, launches |-> <<>>, open |-> FALSE, fetches |-> 0,
     scanned |-> FALSE, completion |-> "none", aiInsights |-> EmptyInsights]

\* No service file has been started.
ServiceInit ==
    [variant |-> "none", openaiKey |-> FALSE,
     requests |-> [r \in 1..MaxRequests |-> NoRequest]]

\* A performDeepTargetedScan call of HybridScanner that was not made.
NoHybridCall ==
    [pc |-> "idle", scannerType |-> "null", engine |-> "none"]

\* No HybridScanner has been constructed.
HybridInit ==
    [init |-> "none", scannerType |-> "null", playwright |-> "works",
     puppeteer |-> TRUE, calls |-> [c \in 1..MaxHybridCalls |-> NoHybridCall]]

\* The navigation loop of deepScanSingleUrl before its first attempt:
\* let retries = 3; let pageLoaded = false.  gotos counts the page.goto calls,
\* last is the outcome of the latest attempt, thrown that the loop rethrew.
NewLoop ==
    [retries |-> 3, pageLoaded |-> FALSE, thrown |-> FALSE, gotos |-> 0,
     last |-> "none"]

\* A performDeepTargetedScan call of the PlaywrightScanner that was not made.
NoScannerCall ==
    [pc |-> "idle", own |-> Null, closing |-> Null, thrown |-> FALSE,
     loop |-> NewLoop, errors |-> <<>>, completion |-> "none",
     aiInsights |-> EmptyInsights]

\* export const playwrightScanner = new PlaywrightScanner()
ScannerInit ==
    [browser |-> Null, open |-> {}, launched |-> 0,
     calls |-> [c \in 1..MaxScannerCalls |-> NoScannerCall]]

\* args.maxDepth of a getElementHierarchy call that leaves it out.
NotGiven ==
    [given |-> FALSE, value |-> 0]

\* No getElementHierarchy call was made.  An element is the sequence of its
\* child elements.
HierarchyInit ==
    [pc |-> "idle", arg |-> NotGiven, root |-> <<>>, maxDepth |-> 0,
     result |-> [children |-> <<>>, childrenCount |-> Undefined], isError |-> FALSE]

\* The keys of result.categorizedResources, in the order of the literal.
Categories ==
    {"documentation", "tutorials", "videos", "integrations", "faqs", "training"}

\* `result` of performDeepTargetedScan in build.sh as the literal creates it,
\* before the method is called: no URL, no browser, empty lists.
DeepScanInit ==
    [pc |-> "idle", urls |-> [t \in UrlTypes |-> FALSE], at |-> 0,
     browser |-> FALSE, page |-> FALSE, failed |-> {},
     categorizedResources |-> [c \in Categories |-> <<>>],
     metadata |-> [urlsScanned |-> 0, resourcesFound |-> 0, errors |-> <<>>]]

Init ==
    /\ state = EmptyState
    /\ currentMousePosition = <<0, 0>>
    /\ listeners = <<>>
    /\ live = {}
    /\ launched = 0
    /\ handlers = <<>>
    /\ jobs = <<>>
    /\ lines = <<>>
    /\ nlines = 0
    /\ stdout = <<>>
    /\ rejected = {}
    /\ pendingRejection = FALSE
    /\ proc = "running"
    /\ buffer = <<>>
    /\ received = <<>>
    /\ dispatched = <<>>
    /\ dialogs = <<>>
    /\ window = <<0, 0>>
    /\ enhanced = EnhancedInit
    /\ service = ServiceInit
    /\ hybrid = HybridInit
    /\ scanner = ScannerInit
    /\ hierarchy = HierarchyInit
    /\ deepScan = DeepScanInit

----------------------------------------------------------------------------
\* PlaywrightController

\* Browser.isConnected() of `b`, with b?. short-circuiting on null.
IsConnected(b) ==
    b # Null /\ b \in live

\* isInitialized() that forgets the context and the page.
IsInitialized_BrowserOnly ==
    IsConnected(state.browser)

IsInitialized ==
    IsConnected(state.browser) /\ state.context # Null /\ state.page # Null

\* new BrowserError(message, suggestion) thrown by the catch of a tool's method.
BrowserErrorOf(name) ==
    [message |-> FailMessage[name], suggestion |-> Suggestion[name]]

----------------------------------------------------------------------------
\* callTool dispatcher: the tool results

\* default: case whose text does not interpolate the name.
UnknownToolResult_NoName(name) ==
    [isError |-> TRUE, text |-> <<"Unknown tool">>]

UnknownToolResult(name) ==
    [isError |-> TRUE, text |-> <<"Unknown tool: ", name>>]

ValidationResult(name) ==
    [isError |-> TRUE, text |-> <<ValidationText[name]>>]

\* text: JSON.stringify(messages, null, 2), modelled as the marker "<data>"
\* followed by the elements of the array.
ListResult(buf) ==
    [isError |-> FALSE, text |-> <<"<data>">> \o buf]

SuccessResult(name) ==
    [isError |-> FALSE, text |-> <<SuccessText[name]>>]

\* A scroll result whose `scrolled` is the amount that was requested.
ScrollResult_Requested(args, reads) ==
    [isError |-> FALSE, text |-> <<SuccessText["scroll"]>>,
     data |-> [before |-> reads[1], after |-> reads[2], scrolled |-> args.delta]]

\* The text of the scroll case: JSON.stringify of the message, before, after
\* and scrolled = after - before on each axis.
ScrollResult(args, reads) ==
    [isError |-> FALSE, text |-> <<SuccessText["scroll"]>>,
     data |-> [before |-> reads[1], after |-> reads[2],
               scrolled |-> <<reads[2][1] - reads[1][1], reads[2][2] - reads[1][2]>>]]

\* The numbers serialised in the text of a result: those of scroll, or none.
NoData ==
    [before |-> <<0, 0>>, after |-> <<0, 0>>, scrolled |-> <<0, 0>>]

DataOf(result) ==
    IF "data" \in DOMAIN result THEN result.data ELSE NoData

\* catch (error) of the dispatcher
CatchResult(error) ==
    [isError |-> TRUE,
     text |-> IF error.suggestion # ""
                THEN <<"Error: ", error.message, "\nSuggestion: ", error.suggestion>>
                ELSE <<"Error: ", error.message>>]

NoResult ==
    [isError |-> FALSE, text |-> <<>>]

----------------------------------------------------------------------------
\* Bookkeeping of async calls in flight.
\*   pc     the await the call is suspended at
\*   st     "io": waiting for the browser;  "job": continuation queued in jobs
\*   res    how the awaited promise settled ("ok" / "fail")
\*   stale  the assignment target `this.state` was evaluated before the await
\*          and this.state has been replaced by closeBrowser since
\*   b      the browser (context, page) object the pending operation is about;
\*          for a listener tool, the index of the listener it registered
\*   result the tool result the callTool handler returned

\*   reads  the scroll positions that scroll has read from the page

\*   op     the operation that screenshot awaits: "$" (page.$), or the scope
\*          of the capture

NewHandler(msg, pc, st, res, b, result) ==
    [msg |-> msg, pc |-> pc, st |-> st, res |-> res, stale |-> FALSE,
     b |-> b, result |-> result, reads |-> <<>>, op |-> ""]

InFlight ==
    DOMAIN handlers

Spawn(line, h) ==
    handlers' = [l \in InFlight \cup {line} |-> IF l = line THEN h ELSE handlers[l]]

\* The awaited promise is already settled: its reaction job is queued at once.
SpawnReady(line, h) ==
    /\ Spawn(line, h)
    /\ jobs' = Append(jobs, line)

\* The awaited promise settles when the browser answers.
SpawnWaiting(line, h) ==
    /\ Spawn(line, h)
    /\ jobs' = jobs

\* The controller method returned / threw its BrowserError: the await of the
\* callTool handler is resumed by a new job.
Resolved(h) ==
    [h EXCEPT !.pc = "ct_resume", !.st = "job", !.res = "ok"]

Thrown(h) ==
    [h EXCEPT !.pc = "ct_resume", !.st = "job", !.res = "fail"]

----------------------------------------------------------------------------
\* Responses on stdout.  line is the input line the response was written for;
\* id is the id member of the JSON written (Null when absent or null).

\* A response that takes its id from the line received last, as if `message`
\* were shared by the handlers instead of local to each handleInput call.
JsonRpcResult_LatestId(line, result) ==
    [line |-> line, env |-> "result", id |-> nlines,
     isError |-> result.isError, text |-> result.text, data |-> DataOf(result)]

JsonRpcResult(line, result) ==
    [line |-> line, env |-> "result", id |-> line,
     isError |-> result.isError, text |-> result.text, data |-> DataOf(result)]

JsonRpcError(line, id, message) ==
    [line |-> line, env |-> "error", id |-> id,
     isError |-> TRUE, text |-> <<message, "Check input format">>]

\* A dispatcher whose catch returns the suggestion in a content block of its
\* own, after the block of the message.
Content_SuggestionBlock(result) ==
    IF result.isError /\ Len(result.text) = 4
      THEN <<[type |-> "text", text |-> SubSeq(result.text, 1, 2)],
             [type |-> "text", text |-> SubSeq(result.text, 3, 4)]>>
      ELSE <<[type |-> "text", text |-> result.text]>>

\* `content` of a tool result: every return of the dispatcher, the one of its
\* catch included, is content: [{type: "text", text: ...}] with one block and
\* the whole text in it.
Content(result) ==
    <<[type |-> "text", text |-> result.text]>>

\* {type: "response", result: {success, message | error: {message, suggestion}}}
\* isError: the result has the member `error` instead of `message`.
\* text is content[0].text; suggestion is content[1]?.text.  JSON.stringify
\* leaves out a member whose value is undefined: `members` are the members of
\* `error` (of `result`, for a success) that are written.
LegacyResponse(line, result) ==
    LET content == Content(result)
        second == Len(content) >= 2
    IN  [line |-> line, env |-> "legacy", id |-> Null,
         success |-> ~result.isError,
         isError |-> result.isError,
         text |-> content[1].text,
         suggestion |-> IF result.isError /\ second THEN content[2].text ELSE <<>>,
         members |-> IF result.isError /\ second THEN {"message", "suggestion"}
                     ELSE {"message"},
         data |-> DataOf(result)]

\* JSON.parse(input) succeeds
ParsesAsJson(kind) ==
    kind \notin {"badjson", "badjson_id"}

\* input.includes('"id"'): requests carry an id member (modelled as the line
\* number); notifications and legacy commands do not.
InputIncludesId(kind) ==
    kind \in {"badjson_id", "initialize", "list", "call", "call_noparams",
              "onlyid", "unknown_method"}

----------------------------------------------------------------------------
\* Synchronous prefix of handleInput(line), up to its first await.

\* catch (error) of handleInput: JSON.parse(input).id is evaluated again when
\* the text contains "id"; on text that is not JSON this throws out of the
\* catch block, and the promise of handleInput is rejected with no handler.
HandleInputCatch(line, kind, message) ==
    IF InputIncludesId(kind) /\ ~ParsesAsJson(kind)
      THEN /\ rejected' = rejected \cup {line}
           /\ pendingRejection' = TRUE
           /\ UNCHANGED <<state, listeners, handlers, jobs, stdout>>
      ELSE /\ stdout' = Append(stdout,
                 JsonRpcError(line, IF InputIncludesId(kind) THEN line ELSE Null, message))
           /\ UNCHANGED <<state, listeners, handlers, jobs, rejected, pendingRejection>>

\* new Server({name: "playmcp-browser", version: "1.0.0"}, {capabilities: {tools}})
ServerConfig ==
    [name |-> "playmcp-browser", version |-> "1.0.0"]

\* this.capabilities.capabilities: the `tools` object, a map from the tool
\* names (given here in insertion order) to the descriptors.
ServerCapabilities ==
    [tools |-> ToolNames]

InitializeResult ==
    [protocolVersion |-> "2024-11-05",
     capabilities |-> ServerCapabilities,
     serverInfo |-> [name |-> ServerConfig.name, version |-> ServerConfig.version]]

\* The response to a request with a result other than a tool result.
JsonRpcResponse(line, method, result) ==
    [line |-> line, env |-> "result", id |-> line, isError |-> FALSE,
     text |-> <<method>>, result |-> result]

\* An initialize response without the id of the request.
HandleInitialize_NoId(line) ==
    /\ stdout' = Append(stdout,
          [JsonRpcResponse(line, "initialize", InitializeResult) EXCEPT !.id = Null])
    /\ UNCHANGED <<state, listeners, handlers, jobs, rejected, pendingRejection>>

HandleInitialize(line) ==
    /\ stdout' = Append(stdout, JsonRpcResponse(line, "initialize", InitializeResult))
    /\ UNCHANGED <<state, listeners, handlers, jobs, rejected, pendingRejection>>

\* A listTools handler that forgets the tool registered last.
ListToolsResult_WithoutLast ==
    [isError |-> FALSE, text |-> <<"tools/list">>,
     tools |-> SubSeq(ToolNames, 1, Len(ToolNames) - 1)]

\* listTools handler: {tools: Object.values(tools)}, the descriptors in
\* insertion order, each standing for itself under its name.
ListToolsResult ==
    [isError |-> FALSE, text |-> <<"tools/list">>, tools |-> ToolNames]

\* notifications/initialized returns; a message with no known method and no
\* command falls through every if and handleInput returns without output.
HandleNoOutput ==
    UNCHANGED <<state, listeners, handlers, jobs, stdout, rejected, pendingRejection>>

\* A tools/list branch that answers only after an initialize request was
\* answered, and throws before it.
HandleToolsList_NeedsInitialize(line, msg) ==
    IF \E i \in DOMAIN stdout :
           stdout[i].env = "result" /\ stdout[i].text = <<"initialize">>
      THEN /\ SpawnReady(line, NewHandler(msg, "hi_resume", "job", "ok", Null, ListToolsResult))
           /\ UNCHANGED <<state, listeners, stdout, rejected, pendingRejection>>
      ELSE HandleInputCatch(line, msg.kind, "Server not initialized")

HandleToolsList(line, msg) ==
    /\ SpawnReady(line, NewHandler(msg, "hi_resume", "job", "ok", Null, ListToolsResult))
    /\ UNCHANGED <<state, listeners, stdout, rejected, pendingRejection>>

\* openBrowser without the `already running` early return.
OpenBrowserStart_NoCheck(line, msg) ==
    /\ state' = [state EXCEPT !.debug = msg.args.debug]
    /\ SpawnWaiting(line, NewHandler(msg, "launch", "io", "ok", Null, NoResult))
    /\ UNCHANGED <<listeners, stdout, rejected, pendingRejection>>

\* case 'openBrowser' -> PlaywrightController.openBrowser up to chromium.launch
OpenBrowserStart(line, msg) ==
    /\ state' = [state EXCEPT !.debug = msg.args.debug]
    /\ IF IsConnected(state.browser)
         THEN SpawnReady(line, Resolved(NewHandler(msg, "launch", "job", "ok", Null, NoResult)))
         ELSE SpawnWaiting(line, NewHandler(msg, "launch", "io", "ok", Null, NoResult))
    /\ UNCHANGED <<listeners, stdout, rejected, pendingRejection>>

\* case 'closeBrowser' -> PlaywrightController.closeBrowser up to page?.close()
CloseBrowserStart(line, msg) ==
    /\ IF state.page # Null
         THEN SpawnWaiting(line, NewHandler(msg, "closePage", "io", "ok", state.page, NoResult))
         ELSE SpawnReady(line, NewHandler(msg, "closePage", "job", "ok", Null, NoResult))
    /\ UNCHANGED <<state, listeners, stdout, rejected, pendingRejection>>

\* page.once / page.on calls of the listener tools.  accept is the flag the
\* dialog listener closes over; buf is the array (`messages`, `requests`) the
\* console / network listener pushes to, created by the call that registers
\* the listener.  "network" stands for the 'request' and the 'response'
\* listener of one getNetworkRequests call, which share one array.
Listener(page, event, accept) ==
    [page |-> page, event |-> event, accept |-> accept, buf |-> <<>>]

ListenersOf(name, page, args) ==
    CASE name = "handleDialog" -> <<Listener(page, "dialog", args.accept)>>
      [] name = "getConsoleMessages" -> <<Listener(page, "console", FALSE)>>
      [] name = "getNetworkRequests" -> <<Listener(page, "network", FALSE)>>
      [] OTHER -> <<>>

\* Every other registered tool: the validation of its dispatch case, then the
\* controller method up to its first await.
PageToolStart(line, msg) ==
    IF ~PassesCheck(CheckKind[msg.name], msg.args.cls)
      THEN /\ SpawnReady(line, NewHandler(msg, "hi_resume", "job", "ok", Null,
                                          ValidationResult(msg.name)))
           /\ UNCHANGED <<state, listeners, stdout, rejected, pendingRejection>>
    ELSE IF ~IsInitialized \/ (msg.name \in PageChecked /\ state.page = Null)
      THEN /\ SpawnReady(line, Thrown(NewHandler(msg, "pageOp", "job", "fail", Null, NoResult)))
           /\ UNCHANGED <<state, listeners, stdout, rejected, pendingRejection>>
    ELSE IF msg.name \in SyncTools
      THEN /\ SpawnReady(line, Resolved(NewHandler(msg, "pageOp", "job", "ok",
                      IF msg.name \in ListenerTools THEN Len(listeners) + 1 ELSE Null,
                      NoResult)))
           /\ listeners' = listeners \o ListenersOf(msg.name, state.page, msg.args)
           /\ UNCHANGED <<state, stdout, rejected, pendingRejection>>
    ELSE IF state.page = Null
      THEN /\ SpawnReady(line, NewHandler(msg, "pageOp", "job", "ok", Null, NoResult))
           /\ UNCHANGED <<state, listeners, stdout, rejected, pendingRejection>>
    ELSE IF msg.name = "screenshot"
      THEN /\ LET scope == ScreenshotScope(msg.args)
                  h == NewHandler(msg, IF scope = "element" THEN "query" ELSE "pageOp",
                                  "io", "ok", state.page, NoResult)
              IN  SpawnWaiting(line, [h EXCEPT !.op = IF scope = "element" THEN "$" ELSE scope])
           /\ UNCHANGED <<state, listeners, stdout, rejected, pendingRejection>>
    ELSE /\ SpawnWaiting(line, NewHandler(msg,
                                 IF msg.name = "scroll" THEN "scrollBefore" ELSE "pageOp",
                                 "io", "ok", state.page, NoResult))
         /\ UNCHANGED <<state, listeners, stdout, rejected, pendingRejection>>

\* default: of the switch
DefaultCase(line, msg) ==
    /\ SpawnReady(line, NewHandler(msg, "hi_resume", "job", "ok", Null,
                                   UnknownToolResult(msg.name)))
    /\ UNCHANGED <<state, listeners, stdout, rejected, pendingRejection>>

\* The request that handleInput passes to the callTool handler for a
\* tools/call message: {params: {name: message.params.name,
\*                                arguments: message.params.arguments}}
CallRequest(msg) ==
    Msg(msg.kind, msg.name, msg.args)

\* A legacy request that forgets message.arguments.
LegacyRequest_NoArguments(msg) ==
    Msg(msg.kind, msg.name, NoArgs)

\* The request passed for a legacy message:
\* {params: {name: message.command, arguments: message.arguments}}
LegacyRequest(msg) ==
    Msg(msg.kind, msg.name, msg.args)

\* The callTool handler, called by handleInput for tools/call and for legacy
\* commands alike.
CallTool(line, msg) ==
    IF msg.name = "openBrowser" THEN OpenBrowserStart(line, msg)
    ELSE IF msg.name = "closeBrowser" THEN CloseBrowserStart(line, msg)
    ELSE IF msg.name \in DispatchCases THEN PageToolStart(line, msg)
    ELSE DefaultCase(line, msg)

HandleInput ==
    /\ proc = "running"
    /\ lines # <<>>
    /\ lines' = Tail(lines)
    /\ LET line == Head(lines).line
           msg == Head(lines).msg
       IN  CASE ~ParsesAsJson(msg.kind) -> HandleInputCatch(line, msg.kind, "SyntaxError")
             [] msg.kind = "initialize" -> HandleInitialize(line)
             [] msg.kind = "list" -> HandleToolsList(line, msg)
             [] msg.kind = "call_noparams" -> HandleInputCatch(line, msg.kind, "TypeError")
             [] msg.kind = "call" -> CallTool(line, CallRequest(msg))
             [] msg.kind = "legacy" -> CallTool(line, LegacyRequest(msg))
             [] OTHER -> HandleNoOutput
    /\ UNCHANGED <<currentMousePosition, live, launched, nlines, proc, stdinText, services, window, dialogs>>

----------------------------------------------------------------------------
\* Continuations (microtasks).  Each runs the code between two awaits.

Update(id, h) ==
    handlers' = [handlers EXCEPT ![id] = h]

\* The continuation suspends at an await of a browser operation.
Suspend(id, h) ==
    /\ Update(id, h)
    /\ jobs' = Tail(jobs)

\* The continuation ends at an await of a settled promise.
Requeue(id, h) ==
    /\ Update(id, h)
    /\ jobs' = Append(Tail(jobs), id)

\* this.state.browser = await chromium.launch(...);
\* this.state.context = await this.state.browser.newContext(...)
OpenBrowserAfterLaunch(id, h) ==
    IF h.res = "fail"
      THEN /\ Requeue(id, Thrown(h))
           /\ UNCHANGED <<state, currentMousePosition>>
      ELSE LET s1 == IF h.stale THEN state ELSE [state EXCEPT !.browser = h.b]
           IN  /\ state' = s1
               /\ IF s1.browser = Null
                    THEN Requeue(id, Thrown(h))
                    ELSE Suspend(id, [h EXCEPT !.pc = "newContext", !.st = "io",
                                               !.stale = FALSE, !.b = s1.browser])
               /\ UNCHANGED currentMousePosition

\* this.state.context = <context>;
\* this.state.page = await this.state.context.newPage()
OpenBrowserAfterNewContext(id, h) ==
    IF h.res = "fail"
      THEN /\ Requeue(id, Thrown(h))
           /\ UNCHANGED <<state, currentMousePosition>>
      ELSE LET s1 == IF h.stale THEN state ELSE [state EXCEPT !.context = h.b]
           IN  /\ state' = s1
               /\ IF s1.context = Null
                    THEN Requeue(id, Thrown(h))
                    ELSE Suspend(id, [h EXCEPT !.pc = "newPage", !.st = "io",
                                               !.stale = FALSE, !.b = s1.context])
               /\ UNCHANGED currentMousePosition

\* this.state.page = <page>; return
OpenBrowserAfterNewPage(id, h) ==
    IF h.res = "fail"
      THEN /\ Requeue(id, Thrown(h))
           /\ UNCHANGED <<state, currentMousePosition>>
      ELSE /\ state' = IF h.stale THEN state ELSE [state EXCEPT !.page = h.b]
           /\ Requeue(id, Resolved(h))
           /\ UNCHANGED currentMousePosition

\* await this.state.context?.close()
CloseBrowserAfterPage(id, h) ==
    /\ IF h.res = "fail" THEN Requeue(id, Thrown(h))
       ELSE IF state.context # Null
         THEN Suspend(id, [h EXCEPT !.pc = "closeContext", !.st = "io", !.b = state.context])
         ELSE Requeue(id, [h EXCEPT !.pc = "closeContext", !.st = "job", !.b = Null])
    /\ UNCHANGED <<state, currentMousePosition>>

\* await this.state.browser?.close()
CloseBrowserAfterContext(id, h) ==
    /\ IF h.res = "fail" THEN Requeue(id, Thrown(h))
       ELSE IF state.browser # Null
         THEN Suspend(id, [h EXCEPT !.pc = "closeBrowser", !.st = "io", !.b = state.browser])
         ELSE Requeue(id, [h EXCEPT !.pc = "closeBrowser", !.st = "job", !.b = Null])
    /\ UNCHANGED <<state, currentMousePosition>>

\* closeBrowser without the assignment that resets this.state.
CloseBrowserAfterBrowser_KeepsState(id, h) ==
    /\ Requeue(id, IF h.res = "fail" THEN Thrown(h) ELSE Resolved(h))
    /\ UNCHANGED <<state, currentMousePosition>>

\* this.state = { browser: null, context: null, page: null, debug: false }
\* The old state object stays the assignment target of every openBrowser call
\* that is suspended inside `this.state.x = await ...`.
CloseBrowserAfterBrowser(id, h) ==
    IF h.res = "fail"
      THEN /\ Requeue(id, Thrown(h))
           /\ UNCHANGED <<state, currentMousePosition>>
      ELSE /\ state' = EmptyState
           /\ handlers' = [l \in InFlight |->
                 IF l = id THEN Resolved(h)
                 ELSE IF handlers[l].pc \in {"launch", "newContext", "newPage"}
                   THEN [handlers[l] EXCEPT !.stale = TRUE]
                 ELSE handlers[l]]
           /\ jobs' = Append(Tail(jobs), id)
           /\ UNCHANGED currentMousePosition

\* The awaits of scroll in order, each with the one that follows: the two
\* page.evaluate calls that read the position, the one that calls
\* window.scrollBy, and page.waitForTimeout.
ScrollAfter ==
    [scrollBefore |-> "scrollBy", scrollBy |-> "scrollWait",
     scrollWait |-> "scrollAfter", scrollAfter |-> "return"]

\* scroll between two of its awaits.
ScrollAfterOp(id, h) ==
    /\ IF h.res = "fail" THEN Requeue(id, Thrown(h))
       ELSE IF ScrollAfter[h.pc] = "return" THEN Requeue(id, Resolved(h))
       ELSE Suspend(id, [h EXCEPT !.pc = ScrollAfter[h.pc], !.st = "io"])
    /\ UNCHANGED <<state, currentMousePosition>>

\* screenshot after `await this.state.page.$(options.selector)`: 'Element not
\* found' is thrown for null, else element.screenshot is awaited.
ScreenshotAfterQuery(id, h) ==
    /\ IF h.res = "fail" \/ ~ElementExists(h.msg.args.selector)
         THEN Requeue(id, Thrown(h))
         ELSE Suspend(id, [h EXCEPT !.pc = "pageOp", !.st = "io", !.op = "element"])
    /\ UNCHANGED <<state, currentMousePosition>>

\* The statements after the awaited page operation(s) of a page tool.
PageToolAfterOp(id, h) ==
    /\ IF h.res = "fail" THEN Requeue(id, Thrown(h)) ELSE Requeue(id, Resolved(h))
    /\ currentMousePosition' =
          IF h.res = "ok" /\ h.msg.name \in MouseTools
            THEN h.msg.args.pos
            ELSE currentMousePosition
    /\ UNCHANGED state

\* callTool handler after `await playwrightController.<method>(...)`:
\* return of the case, or catch (error).
CallToolResume(id, h) ==
    /\ Requeue(id, [h EXCEPT !.pc = "hi_resume",
                             !.result = IF h.res = "fail"
                                          THEN CatchResult(BrowserErrorOf(h.msg.name))
                                        ELSE IF h.msg.name \in DataListenerTools
                                          THEN ListResult(listeners[h.b].buf)
                                        ELSE IF h.msg.name = "scroll"
                                          THEN ScrollResult(h.msg.args, h.reads)
                                        ELSE SuccessResult(h.msg.name)])
    /\ UNCHANGED <<state, currentMousePosition>>

\* handleInput after `await this.callToolHandler(...)` / listToolsHandler()
ResponseOf(id, h) ==
    IF h.msg.kind = "legacy" THEN LegacyResponse(id, h.result)
    ELSE IF h.msg.kind = "list"
      THEN JsonRpcResponse(id, "tools/list", [tools |-> h.result.tools])
    ELSE JsonRpcResult(id, h.result)

HandleInputResume(id, h) ==
    /\ stdout' = Append(stdout, ResponseOf(id, h))
    /\ handlers' = [l \in InFlight \ {id} |-> handlers[l]]
    /\ jobs' = Tail(jobs)
    /\ UNCHANGED <<state, currentMousePosition>>

\* SIGINT listener of server.js after
\* `try { await playwrightController.closeBrowser(); } catch (error) { }`,
\* without the catch: the rejection ends the listener before process.exit.
SigintExit_NoCatch(id, h) ==
    /\ proc' = IF h.res = "ok" THEN "exited" ELSE proc
    /\ handlers' = [handlers EXCEPT ![id].st = "done"]
    /\ jobs' = Tail(jobs)
    /\ UNCHANGED <<state, currentMousePosition>>

\* SIGINT listener of server.js after
\* `try { await playwrightController.closeBrowser(); } catch (error) { }`:
\* process.exit(0)
SigintExit(id, h) ==
    /\ proc' = "exited"
    /\ handlers' = [handlers EXCEPT ![id].st = "done"]
    /\ jobs' = Tail(jobs)
    /\ UNCHANGED <<state, currentMousePosition>>

IsSigint(h) ==
    h.msg.kind = "sigint"

RunJob ==
    /\ proc = "running"
    /\ lines = <<>>
    /\ jobs # <<>>
    /\ LET id == Head(jobs)
           h == handlers[id]
       IN  /\ CASE h.pc = "ct_resume" /\ IsSigint(h) -> SigintExit(id, h)
                [] h.pc = "ct_resume" /\ ~IsSigint(h) -> CallToolResume(id, h)
                [] h.pc = "launch" -> OpenBrowserAfterLaunch(id, h)
                [] h.pc = "newContext" -> OpenBrowserAfterNewContext(id, h)
                [] h.pc = "newPage" -> OpenBrowserAfterNewPage(id, h)
                [] h.pc = "closePage" -> CloseBrowserAfterPage(id, h)
                [] h.pc = "closeContext" -> CloseBrowserAfterContext(id, h)
                [] h.pc = "closeBrowser" -> CloseBrowserAfterBrowser(id, h)
                [] h.pc = "pageOp" -> PageToolAfterOp(id, h)
                [] h.pc = "query" -> ScreenshotAfterQuery(id, h)
                [] h.pc \in DOMAIN ScrollAfter -> ScrollAfterOp(id, h)
                [] h.pc = "hi_resume" -> HandleInputResume(id, h)
           /\ IF h.pc = "hi_resume" THEN TRUE ELSE stdout' = stdout
           /\ IF h.pc = "ct_resume" /\ IsSigint(h) THEN TRUE ELSE proc' = proc
    /\ UNCHANGED <<listeners, live, launched, lines, nlines, rejected,
                   pendingRejection, stdinText, services, window, dialogs>>

----------------------------------------------------------------------------
\* Macrotasks.  They run only when the current tick is over: the for-loop of
\* the 'data' callback has ended and the microtask queue is empty.

Idle ==
    /\ proc = "running"
    /\ lines = <<>>
    /\ jobs = <<>>
    /\ ~pendingRejection

\* The offset of one axis after a scroll by `by`: the page keeps it between 0
\* and the largest offset of the document.
Clamp(offset, by, max) ==
    IF offset + by < 0 THEN 0 ELSE IF offset + by > max THEN max ELSE offset + by

\* The positions the page may be at when window.scrollBy(args.delta) has been
\* evaluated and the position is read again: the clamped sum, or, for a
\* smooth scroll that is still under way, any position on the way to it.
ScrolledTo(from, args) ==
    LET to == <<Clamp(from[1], args.delta[1], MaxScrollX),
                Clamp(from[2], args.delta[2], MaxScrollY)>>
        between(a, b, c) == (a <= b /\ b <= c) \/ (c <= b /\ b <= a)
    IN  IF args.smooth
        THEN {p \in (0..MaxScrollX) \X (0..MaxScrollY) :
                between(from[1], p[1], to[1]) /\ between(from[2], p[2], to[2])}
        ELSE {to}

\* The browser answers the operation that handler `id` awaits.
IOComplete(id, outcome) ==
    /\ Idle
    /\ id \in InFlight
    /\ handlers[id].st = "io"
    /\ LET h == handlers[id]
       IN  /\ CASE h.pc = "launch" ->
                    IF outcome = "ok"
                      THEN /\ launched' = launched + 1
                           /\ live' = live \cup {launched + 1}
                           /\ Update(id, [h EXCEPT !.st = "job", !.res = "ok", !.b = launched + 1])
                      ELSE /\ UNCHANGED <<launched, live>>
                           /\ Update(id, [h EXCEPT !.st = "job", !.res = "fail"])
                [] h.pc = "closeBrowser" ->
                    /\ launched' = launched
                    /\ IF outcome = "ok"
                         THEN live' = live \ {h.b}
                         ELSE live' \in {live, live \ {h.b}}
                    /\ Update(id, [h EXCEPT !.st = "job", !.res = outcome])
                [] OTHER ->
                    /\ outcome = "ok" => h.b \in live
                    \* on a live page a wait is rejected by its timer only
                    /\ h.msg.name \in WaitTools /\ outcome = "fail" /\ h.b \in live
                          => ArmsTimer(TimeoutOf(h.msg.args))
                    /\ UNCHANGED <<launched, live>>
                    /\ Update(id, [h EXCEPT !.st = "job", !.res = outcome,
                              !.reads = IF outcome = "ok" /\ h.pc \in {"scrollBefore", "scrollAfter"}
                                        THEN Append(@, window) ELSE @])
           /\ window' \in IF outcome = "ok" /\ h.pc = "scrollBy"
                             THEN ScrolledTo(window, h.msg.args)
                           ELSE IF outcome = "ok" /\ h.pc = "newPage" THEN {<<0, 0>>}
                           ELSE {window}
    /\ jobs' = <<id>>
    /\ UNCHANGED <<state, currentMousePosition, listeners, lines, nlines, stdout,
                   rejected, pendingRejection, proc, stdinText, services, dialogs>>

BrowserReplies ==
    \E id \in InFlight : \E outcome \in {"ok", "fail"} : IOComplete(id, outcome)

\* End of a tick in which a promise was rejected with no handler attached.
\* Node.js terminates the process (the default since version 15) or only
\* prints a warning (earlier versions, --unhandled-rejections=warn).
UnhandledRejection ==
    /\ proc = "running"
    /\ lines = <<>>
    /\ jobs = <<>>
    /\ pendingRejection
    /\ pendingRejection' = FALSE
    /\ proc' \in {"running", "crashed"}
    /\ UNCHANGED <<state, currentMousePosition, listeners, live, launched, handlers,
                   jobs, lines, nlines, stdout, rejected, stdinText, services, window, dialogs>>

\* process.stdin 'data' event whose chunk completes k lines: the callback
\* splits the buffer and loops over the lines.
StdinData(msgs, maxLines, maxChunk) ==
    /\ Idle
    /\ \E k \in 1..maxChunk :
         /\ nlines + k <= maxLines
         /\ \E chunk \in [1..k -> msgs] :
              lines' = [i \in 1..k |-> [line |-> nlines + i, msg |-> chunk[i]]]
         /\ nlines' = nlines + k
    /\ UNCHANGED <<state, currentMousePosition, listeners, live, launched, handlers,
                   jobs, stdout, rejected, pendingRejection, proc, stdinText, services, window, dialogs>>

\* A client that calls tools with valid arguments and without the debug flag:
\* the lines arrive at any time, several per chunk.
ClientSends ==
    StdinData({m \in Messages({}, CallNames, {}) : m.args.cls = "valid" /\ ~m.args.debug},
              MaxLines, MaxChunk)

Next ==
    \/ ClientSends
    \/ HandleInput
    \/ RunJob
    \/ BrowserReplies

Spec ==
    Init /\ [][Next]_vars

\* A client that sends lines of every kind, well-formed or not, and never
\* opens a browser.
ClientSendsAny ==
    StdinData(Messages(PlainKinds, ProtocolNames, ProtocolNames), MaxLines, MaxChunk)

NextProtocol ==
    \/ ClientSendsAny
    \/ HandleInput
    \/ RunJob
    \/ UnhandledRejection

SpecProtocol ==
    Init /\ [][NextProtocol]_vars

\* A client that sends one line at a time and waits until its handler has
\* finished; it may call every registered tool.
AllNames ==
    Registered \cup {"noSuchTool"}

ClientSendsOne ==
    /\ InFlight = {}
    /\ StdinData(Messages({"initialize", "list"}, AllNames, {}), MaxToolLines, 1)

NextTools ==
    \/ ClientSendsOne
    \/ HandleInput
    \/ RunJob
    \/ BrowserReplies

SpecTools ==
    Init /\ [][NextTools]_vars

\* A client of the legacy protocol: bare commands, one line at a time.
LegacyNames ==
    {"openBrowser", "moveMouse", "noSuchTool"}

ClientSendsLegacy ==
    /\ InFlight = {}
    /\ StdinData(Messages({}, {}, LegacyNames), MaxLegacyLines, 1)

NextLegacy ==
    \/ ClientSendsLegacy
    \/ HandleInput
    \/ RunJob
    \/ BrowserReplies

SpecLegacy ==
    Init /\ [][NextLegacy]_vars

----------------------------------------------------------------------------
\* Events of a page

\* The page emits a console message (ev = "console") or a request
\* (ev = "network"): every listener registered for the event pushes an entry
\* to its own array.
PageEmits(p, ev) ==
    /\ Idle
    /\ p \in live
    /\ \E i \in DOMAIN listeners : listeners[i].page = p /\ listeners[i].event = ev
    /\ \A i \in DOMAIN listeners : Len(listeners[i].buf) < MaxEvents
    /\ listeners' = [i \in DOMAIN listeners |->
          IF listeners[i].page = p /\ listeners[i].event = ev
            THEN [listeners[i] EXCEPT !.buf = Append(@, ev)]
            ELSE listeners[i]]
    /\ UNCHANGED <<state, currentMousePosition, live, launched, handlers, jobs, lines,
                   nlines, stdout, rejected, pendingRejection, proc, stdinText, services, window, dialogs>>

PageEvent ==
    \E p \in live : \E ev \in {"console", "network"} : PageEmits(p, ev)

IsDialogListener(l, p) ==
    l.page = p /\ l.event = "dialog"

\* The page shows a native dialog: every listener registered with
\* page.once('dialog', ...) is removed and called with the dialog, and calls
\* dialog.accept(promptText) or dialog.dismiss().  The listener is an async
\* function without a catch: when the call on the dialog rejects, the promise
\* of the listener is rejected with no handler.
DialogOpens(p) ==
    /\ Idle
    /\ p \in live
    /\ Len(dialogs) < MaxDialogs
    /\ LET fired == SelectSeq(listeners, LAMBDA l : IsDialogListener(l, p))
       IN  /\ dialogs' = Append(dialogs, [i \in 1..Len(fired) |-> fired[i].accept])
           /\ listeners' = SelectSeq(listeners, LAMBDA l : ~IsDialogListener(l, p))
           /\ pendingRejection' \in (IF fired = <<>> THEN {FALSE} ELSE BOOLEAN)
    /\ UNCHANGED <<state, currentMousePosition, live, launched, handlers, jobs, lines,
                   nlines, stdout, rejected, proc, stdinText, services, window>>

DialogEvent ==
    \E p \in live : DialogOpens(p)

\* A client that opens a browser and uses the listener tools, one line at a
\* time, on a page that emits events and shows dialogs.
EventNames ==
    {"openBrowser", "handleDialog", "getConsoleMessages", "getNetworkRequests"}

ClientSendsListeners ==
    /\ InFlight = {}
    /\ StdinData({m \in Messages({}, EventNames, {}) : m.args.cls = "valid" /\ ~m.args.debug},
                 MaxEventLines, 1)

NextEvents ==
    \/ ClientSendsListeners
    \/ HandleInput
    \/ RunJob
    \/ BrowserReplies
    \/ PageEvent
    \/ DialogEvent
    \/ UnhandledRejection

SpecEvents ==
    Init /\ [][NextEvents]_vars

----------------------------------------------------------------------------
\* SIGINT

\* Handlers of the SIGINT listener of server.js are kept in `handlers` under
\* negative numbers.
SigintIds ==
    {0 - k : k \in 1..MaxSigints}

\* process.on('SIGINT', ...) of server.js up to the first await inside
\* closeBrowser; the SIGINT listener of Server.connect, registered later,
\* then resolves the promise of connect(), which changes no state.
SigintSignal(id) ==
    /\ Idle
    /\ id \in SigintIds \ InFlight
    /\ \A j \in SigintIds : j > id => j \in InFlight
    /\ CloseBrowserStart(id, Msg("sigint", "closeBrowser", NoArgs))
    /\ UNCHANGED <<currentMousePosition, live, launched, lines, nlines, proc,
                   stdinText, services, window, dialogs>>

Sigint ==
    \E id \in SigintIds : SigintSignal(id)

SigintNames ==
    {"openBrowser", "getPageTitle"}

\* A client that waits for the response to a line before it sends the next;
\* the signal may arrive at any time, also between a line and its response.
ClientSendsBeforeExit ==
    /\ \A l \in InFlight : l \in SigintIds
    /\ StdinData({m \in Messages({}, SigintNames, {}) : ~m.args.debug}, MaxSigintLines, 1)

NextSigint ==
    \/ ClientSendsBeforeExit
    \/ HandleInput
    \/ RunJob
    \/ BrowserReplies
    \/ Sigint

\* The event loop runs every queued job, and the browser settles every
\* pending operation (with success or failure).
SpecSigint ==
    /\ Init /\ [][NextSigint]_vars
    /\ WF_vars(HandleInput)
    /\ WF_vars(RunJob)
    /\ \A id \in SigintIds : WF_vars(\E outcome \in {"ok", "fail"} : IOComplete(id, outcome))

----------------------------------------------------------------------------
\* Line framing of Server.connect, on the text of stdin

\* Characters of the text: a non-blank character, a blank, the newline.
Chars ==
    {"a", " ", "\n"}

RECURSIVE SeqsUpTo(_)
SeqsUpTo(n) ==
    IF n = 0 THEN {<<>>}
    ELSE LET shorter == SeqsUpTo(n - 1)
         IN  shorter \cup {Append(t, c) : t \in {u \in shorter : Len(u) = n - 1}, c \in Chars}

\* buffer.split('\n'): the pieces between the newlines, one more than newlines
RECURSIVE Split(_)
Split(t) ==
    IF \A i \in DOMAIN t : t[i] # "\n" THEN <<t>>
    ELSE LET n == CHOOSE i \in DOMAIN t : t[i] = "\n" /\ \A j \in 1..(i - 1) : t[j] # "\n"
         IN  <<SubSeq(t, 1, n - 1)>> \o Split(SubSeq(t, n + 1, Len(t)))

\* line.trim() is a non-empty string
TrimIsNonEmpty(line) ==
    \E i \in DOMAIN line : line[i] # " "

\* 'data' callback without `buffer += chunk`: the chunk alone is split.
StdinChunk_NoBuffer(chunk) ==
    /\ received' = received \o chunk
    /\ IF \E i \in DOMAIN chunk : chunk[i] = "\n"
         THEN LET pieces == Split(chunk)
              IN  /\ buffer' = pieces[Len(pieces)]
                  /\ dispatched' = dispatched \o
                        SelectSeq(SubSeq(pieces, 1, Len(pieces) - 1), TrimIsNonEmpty)
         ELSE /\ buffer' = chunk
              /\ dispatched' = dispatched
    /\ UNCHANGED <<state, currentMousePosition, listeners, live, launched, handlers,
                   jobs, lines, nlines, stdout, rejected, pendingRejection, proc, dialogs,
                   services, window>>

\* process.stdin.on('data', chunk => ...): buffer += chunk; when the buffer
\* holds a newline it is split, the last piece (`lines.pop() || ''`) becomes
\* the buffer and handleInput is called with every piece whose trim() is not
\* empty.  The calls are recorded in `dispatched`.
StdinChunk(chunk) ==
    /\ received' = received \o chunk
    /\ LET whole == buffer \o chunk
       IN  IF \E i \in DOMAIN whole : whole[i] = "\n"
             THEN LET pieces == Split(whole)
                  IN  /\ buffer' = pieces[Len(pieces)]
                      /\ dispatched' = dispatched \o
                            SelectSeq(SubSeq(pieces, 1, Len(pieces) - 1), TrimIsNonEmpty)
             ELSE /\ buffer' = whole
                  /\ dispatched' = dispatched
    /\ UNCHANGED <<state, currentMousePosition, listeners, live, launched, handlers,
                   jobs, lines, nlines, stdout, rejected, pendingRejection, proc, dialogs,
                   services, window>>

\* stdin delivers the text in chunks of any length.
StdinText ==
    \E chunk \in SeqsUpTo(MaxChunkLen) \ {<<>>} :
        /\ Len(received) + Len(chunk) <= MaxStream
        /\ StdinChunk(chunk)

NextFraming ==
    StdinText

SpecFraming ==
    Init /\ [][NextFraming]_vars

----------------------------------------------------------------------------
\* Vocabulary of the properties

\* The step is the synchronous prefix of handleInput for the first line of `lines`.
StartsLine ==
    lines # <<>> /\ lines' = Tail(lines)

\* The step writes the response of the handler of line id.
Responds(id) ==
    /\ id \in InFlight
    /\ id \notin DOMAIN handlers'
    /\ Len(stdout') = Len(stdout) + 1

TextReports(text, s) ==
    \E i \in DOMAIN text : text[i] = s

\* A session is open: a connected browser, a context and a page are recorded.
SessionOpen ==
    state.browser \in live /\ state.context # Null /\ state.page # Null

PageTools ==
    Registered \ {"openBrowser", "closeBrowser"}

IsToolCall(msg) ==
    msg.kind \in {"call", "legacy"}

----------------------------------------------------------------------------
\* C1: tool invocations are processed strictly one at a time in arrival
\* order: at most one handler is in flight (started and not yet completed) at
\* any time, and the responses on stdout are in the order of the lines.
C1_OneAtATimeInOrder ==
    /\ Cardinality(InFlight) <= 1
    /\ \A i, j \in DOMAIN stdout : i < j => stdout[i].line < stdout[j].line

\* C2: whenever the event loop is between two tasks, at most one browser
\* launched by the controller is live and the controller's state references
\* it (so no openBrowser launches a second browser next to a live one).
C2_AtMostOneLiveBrowser ==
    Idle => /\ Cardinality(live) <= 1
            /\ \A b \in live : state.browser = b

\* C3: a line that is not valid JSON produces exactly one structured error
\* response (with the suggestion 'Check input format'), handleInput does not
\* reject for it, and the process stays up to dispatch the lines that follow.
C3_BadJsonAnswered ==
    [][ /\ (StartsLine /\ ~ParsesAsJson(Head(lines).msg.kind)) =>
             /\ Len(stdout') = Len(stdout) + 1
             /\ stdout'[Len(stdout')].env = "error"
             /\ stdout'[Len(stdout')].line = Head(lines).line
             /\ TextReports(stdout'[Len(stdout')].text, "Check input format")
             /\ rejected' = rejected
        /\ proc' = "running" ]_vars

\* C4: a line that is valid JSON but has no recognised method and no command
\* (only an id, an unknown method, tools/call without params) is answered
\* with a structured error response; none is dropped without a response.
C4_NoEnvelopeAnswered ==
    [][ (StartsLine /\ Head(lines).msg.kind \in {"onlyid", "unknown_method", "call_noparams"}) =>
             /\ Len(stdout') = Len(stdout) + 1
             /\ stdout'[Len(stdout')].env = "error"
             /\ stdout'[Len(stdout')].line = Head(lines).line ]_vars

\* C5: the response to a page-dependent tool that was invoked (with the
\* arguments its dispatch case requires) while no session is open is an error
\* whose text reports "Browser not initialized"; the process keeps running.
C5_ReportsNotInitialized ==
    [][ /\ \A id \in InFlight :
             (/\ Responds(id)
              /\ IsToolCall(handlers[id].msg)
              /\ handlers[id].msg.name \in PageTools
              /\ handlers[id].msg.args.cls = "valid"
              /\ ~SessionOpen) =>
                 /\ stdout'[Len(stdout')].isError
                 /\ TextReports(stdout'[Len(stdout')].text, "Browser not initialized")
        /\ proc' = "running" ]_vars

\* C6: closeBrowser returns normally on every path (teardown errors are
\* swallowed) and leaves the session state empty when it returns.
C6_CloseAlwaysResets ==
    [][ \A id \in InFlight :
          (/\ id \in DOMAIN handlers'
           /\ handlers[id].msg.name = "closeBrowser"
           /\ handlers[id].pc \in {"closePage", "closeContext", "closeBrowser"}
           /\ handlers'[id].pc = "ct_resume") =>
              /\ handlers'[id].res = "ok"
              /\ state' = EmptyState ]_vars

\* C7: an openBrowser issued while a session is already connected launches no
\* browser, leaves the browser, context and page references unchanged and
\* returns normally, and the call is answered "Browser opened successfully".
C7_OpenIdempotent ==
    [][ /\ (/\ StartsLine
            /\ IsToolCall(Head(lines).msg)
            /\ Head(lines).msg.name = "openBrowser"
            /\ state.browser \in live) =>
               LET id == Head(lines).line
               IN  /\ state'.browser = state.browser
                   /\ state'.context = state.context
                   /\ state'.page = state.page
                   /\ id \in DOMAIN handlers'
                   /\ handlers'[id].pc = "ct_resume"
                   /\ handlers'[id].res = "ok"
                   /\ handlers'[id].st = "job"
                   /\ launched' = launched
                   /\ live' = live
        /\ \A id \in InFlight :
             (/\ handlers[id].msg.name = "openBrowser"
              /\ handlers[id].pc = "ct_resume"
              /\ handlers[id].res = "ok"
              /\ id \in DOMAIN handlers'
              /\ handlers'[id] # handlers[id]) =>
                 /\ handlers'[id].pc = "hi_resume"
                 /\ handlers'[id].result = SuccessResult("openBrowser")
        /\ \A id \in InFlight :
             (/\ Responds(id)
              /\ handlers[id].msg.name = "openBrowser"
              /\ handlers[id].result = SuccessResult("openBrowser")) =>
                 /\ ~stdout'[Len(stdout')].isError
                 /\ stdout'[Len(stdout')].line = id
                 /\ TextReports(stdout'[Len(stdout')].text, "Browser opened successfully") ]_vars

\* Two openBrowser calls were answered with success and one browser was launched.
C7_Witness ==
    /\ launched = 1
    /\ \E i, j \in DOMAIN stdout :
         /\ i < j
         /\ TextReports(stdout[i].text, "Browser opened successfully")
         /\ TextReports(stdout[j].text, "Browser opened successfully")

\* C8: when openBrowser fails at any of its steps, the session is left empty
\* (browser, context and page all null) and the call is answered with an error.
C8_FailedOpenLeavesEmpty ==
    [][ \A id \in InFlight :
          (/\ id \in DOMAIN handlers'
           /\ handlers[id].msg.name = "openBrowser"
           /\ handlers[id].pc \in {"launch", "newContext", "newPage"}
           /\ handlers'[id].pc = "ct_resume"
           /\ handlers'[id].res = "fail") =>
              (state'.browser = Null /\ state'.context = Null /\ state'.page = Null) ]_vars

\* C9: a tools/call naming an unregistered tool invokes no controller
\* operation and changes no session state; it is answered with isError true
\* and a text that contains the tool name, and the process stays up for the
\* next message.
C9_UnknownTool ==
    [][ /\ (/\ StartsLine
            /\ Head(lines).msg.kind = "call"
            /\ Head(lines).msg.name \notin Registered) =>
               LET id == Head(lines).line
               IN  /\ UNCHANGED <<state, currentMousePosition, listeners, live, launched>>
                   /\ id \in DOMAIN handlers'
                   /\ handlers'[id].pc = "hi_resume"
                   /\ handlers'[id].st = "job"
                   /\ handlers'[id].result.isError
                   /\ TextReports(handlers'[id].result.text, Head(lines).msg.name)
        /\ \A id \in InFlight :
             (/\ Responds(id)
              /\ handlers[id].msg.kind = "call"
              /\ handlers[id].msg.name \notin Registered) =>
                 /\ stdout'[Len(stdout')].line = id
                 /\ stdout'[Len(stdout')].id = id
                 /\ stdout'[Len(stdout')].isError
                 /\ TextReports(stdout'[Len(stdout')].text, handlers[id].msg.name)
                 /\ UNCHANGED <<state, currentMousePosition, listeners, live, launched>>
                 /\ proc' = "running" ]_vars

\* An unknown tool was answered and a later line was answered after it.
C9_Witness ==
    \E i, j \in DOMAIN stdout :
       /\ i < j
       /\ stdout[i].line < stdout[j].line
       /\ stdout[i].env = "result"
       /\ stdout[i].isError
       /\ TextReports(stdout[i].text, "noSuchTool")

\* C10: a tool invocation other than openBrowser and closeBrowser made while
\* no session is open changes neither the session state (browser, context,
\* page, debug flag) nor the mouse position nor the registered listeners, from
\* its start to its response, waits for no browser operation, and is answered
\* with an error.
C10_NoSessionNoEffect ==
    [][ /\ (/\ StartsLine
            /\ IsToolCall(Head(lines).msg)
            /\ Head(lines).msg.name \notin {"openBrowser", "closeBrowser"}
            /\ ~SessionOpen) =>
               LET id == Head(lines).line
               IN  /\ UNCHANGED <<state, currentMousePosition, listeners>>
                   /\ id \in DOMAIN handlers'
                   /\ handlers'[id].st = "job"
                   /\ handlers'[id].result.isError \/ handlers'[id].res = "fail"
        /\ \A id \in InFlight :
             (/\ handlers[id].msg.name \notin {"openBrowser", "closeBrowser"}
              /\ IsToolCall(handlers[id].msg)
              /\ ~SessionOpen
              /\ jobs # <<>>
              /\ Head(jobs) = id) =>
                 /\ UNCHANGED <<state, currentMousePosition, listeners>>
                 /\ Responds(id) => stdout'[Len(stdout')].isError ]_vars

\* moveMouse was called with valid coordinates before any browser was
\* launched, and was answered with an error; the mouse position is still (0,0).
C10_Witness ==
    /\ launched = 0
    /\ ~SessionOpen
    /\ currentMousePosition = <<0, 0>>
    /\ \E i \in DOMAIN stdout :
         /\ stdout[i].isError
         /\ TextReports(stdout[i].text, "Failed to move mouse")

\* C11: for every registered tool, a tools/call whose declared-required
\* arguments are missing or of an implausible type gets the isError result
\* naming the argument and invokes no controller operation; only when all
\* declared-required arguments pass is the controller operation invoked.
C11_RequiredArgsValidated ==
    [][StartsLine /\ Head(lines).msg.kind = "call"
                  /\ Head(lines).msg.name \in PageTools =>
         LET id == Head(lines).line
             msg == Head(lines).msg
             rejects == /\ id \in DOMAIN handlers'
                        /\ handlers'[id].pc = "hi_resume"
                        /\ handlers'[id].result.isError
                        /\ handlers'[id].result.text = <<ValidationText[msg.name]>>
                        /\ UNCHANGED <<state, currentMousePosition, listeners>>
         IN  IF msg.name \in HasRequired /\ msg.args.cls # "valid"
               THEN rejects
               ELSE ~rejects]_vars

\* C12: every failure raised by a controller operation is answered with an
\* isError response whose text carries the short message and the suggestion;
\* no tool invocation terminates the process or leaves a rejected promise
\* unhandled.
C12_FailuresBecomeErrorResponses ==
    [][/\ \A id \in InFlight :
            (/\ Responds(id)
             /\ IsToolCall(handlers[id].msg)
             /\ handlers[id].res = "fail") =>
               /\ stdout'[Len(stdout')].line = id
               /\ stdout'[Len(stdout')].isError
               /\ TextReports(stdout'[Len(stdout')].text, FailMessage[handlers[id].msg.name])
               /\ TextReports(stdout'[Len(stdout')].text, Suggestion[handlers[id].msg.name])
       /\ proc' = "running"
       /\ ~pendingRejection'
       /\ rejected' = {}]_vars

\* The positions of the newlines of text t, in increasing order.
NewlinesOf(t) ==
    SelectSeq([i \in 1..Len(t) |-> i], LAMBDA i : t[i] = "\n")

\* The text of t after the last newline before position n, up to n.
LineUpTo(t, n) ==
    LET before == {j \in 1..(n - 1) : t[j] = "\n"}
        start == IF before = {} THEN 1
                 ELSE 1 + CHOOSE j \in before : \A k \in before : k <= j
    IN  SubSeq(t, start, n - 1)

\* The newline-terminated lines of t that hold a non-blank character.
NonBlankLines(t) ==
    LET ends == NewlinesOf(t)
    IN  SelectSeq([k \in 1..Len(ends) |-> LineUpTo(t, ends[k])],
                  LAMBDA l : \E i \in DOMAIN l : l[i] = "a")

\* C13: line framing does not depend on the chunking: whatever chunks the
\* text received so far arrived in, handleInput has been called exactly once
\* for each of its non-blank newline-terminated lines, in order and with the
\* complete line, and the text after the last newline is in the buffer,
\* not dispatched.
C13_FramingIgnoresChunking ==
    /\ dispatched = NonBlankLines(received)
    /\ buffer = LineUpTo(received, Len(received) + 1)

\* A line that is longer than any chunk was dispatched whole, a blank line was
\* skipped, and an unterminated rest is buffered.
C13_Witness ==
    /\ \E i \in DOMAIN dispatched : Len(dispatched[i]) >= MaxChunkLen
    /\ buffer # <<>>
    /\ Len(dispatched) = 1

\* A SIGINT has been delivered.
SigintDelivered ==
    \E id \in SigintIds : id \in InFlight

\* C14: on SIGINT the process attempts closeBrowser exactly once and then
\* exits with code 0; it exits also when closeBrowser throws and also when a
\* tool invocation is still in flight.
C14_SigintClosesThenExits ==
    /\ [][/\ \A id \in SigintIds :
               (id \notin InFlight /\ id \in DOMAIN handlers') =>
                  /\ DOMAIN handlers' = InFlight \cup {id}
                  /\ handlers'[id].msg.name = "closeBrowser"
                  /\ handlers'[id].pc = "closePage"
          /\ \A id \in SigintIds \cap InFlight :
               /\ id \in DOMAIN handlers'
               /\ handlers[id].pc # "closePage" => handlers'[id].pc # "closePage"
          /\ proc' # proc =>
               /\ proc' = "exited"
               /\ \E id \in SigintIds \cap InFlight : handlers[id].pc = "ct_resume"]_vars
    /\ (SigintDelivered ~> (proc = "exited"))

\* The process has exited after a closeBrowser that threw, while the handler
\* of a tool call was in flight.
C14_Witness ==
    /\ proc = "exited"
    /\ \E id \in SigintIds \cap InFlight : handlers[id].res = "fail"
    /\ \E l \in InFlight : l > 0

\* C15: a legacy message {command: N, arguments: A} takes the dispatch path
\* of a tools/call with name N and arguments A: the callTool handler is
\* started with that name and those arguments, exactly as for the tools/call
\* (rejected, unknown, or handed to the controller method of N with its
\* effect on the session), and the legacy response reports success exactly
\* when the tool result is not an error.
C15_LegacySameDispatch ==
    [][/\ (StartsLine /\ Head(lines).msg.kind = "legacy") =>
            LET id == Head(lines).line
                msg == Head(lines).msg
            IN  /\ id \in DOMAIN handlers'
                /\ handlers'[id].msg.name = msg.name
                /\ handlers'[id].msg.args = msg.args
                /\ msg.name \notin Registered =>
                      handlers'[id].result = UnknownToolResult(msg.name)
                /\ (msg.name \in PageTools /\ msg.args.cls # "valid") =>
                      handlers'[id].result = ValidationResult(msg.name)
                /\ (msg.name \in PageTools /\ msg.args.cls = "valid") =>
                      handlers'[id].pc \in {"pageOp", "ct_resume"}
                /\ msg.name = "openBrowser" => state'.debug = msg.args.debug
       /\ \A id \in InFlight :
            (handlers[id].msg.kind = "legacy" /\ handlers[id].msg.name \in MouseTools
               /\ handlers[id].pc = "pageOp" /\ handlers[id].res = "ok"
               /\ handlers'[id].pc # "pageOp") =>
                 currentMousePosition' = handlers[id].msg.args.pos
       /\ \A id \in InFlight :
            (Responds(id) /\ handlers[id].msg.kind = "legacy") =>
               /\ stdout'[Len(stdout')].env = "legacy"
               /\ stdout'[Len(stdout')].line = id
               /\ stdout'[Len(stdout')].success = ~handlers[id].result.isError
               /\ stdout'[Len(stdout')].text = handlers[id].result.text]_vars

\* A legacy moveMouse has moved the mouse and was answered with success, after
\* a legacy command that was answered with an error.
C15_Witness ==
    /\ currentMousePosition # <<0, 0>>
    /\ \E i \in DOMAIN stdout : stdout[i].env = "legacy" /\ stdout[i].success
    /\ \E i \in DOMAIN stdout : stdout[i].env = "legacy" /\ ~stdout[i].success

\* The response at position i of stdout answers a request of the method.
IsResponseTo(i, method) ==
    stdout[i].env = "result" /\ stdout[i].text = <<method>>

\* C16: every initialize request is answered at once with exactly one response
\* that carries the id of the request, protocolVersion "2024-11-05", the
\* capability map of all registered tools and the name and version of the
\* server; it starts no tool handler and changes no session state, and
\* tools/list and tools/call requests that follow are accepted.
C16_InitializeAnswered ==
    [][/\ (StartsLine /\ Head(lines).msg.kind = "initialize") =>
            LET id == Head(lines).line
            IN  /\ Len(stdout') = Len(stdout) + 1
                /\ SubSeq(stdout', 1, Len(stdout)) = stdout
                /\ stdout'[Len(stdout')].line = id
                /\ stdout'[Len(stdout')].id = id
                /\ stdout'[Len(stdout')].env = "result"
                /\ stdout'[Len(stdout')].result.protocolVersion = "2024-11-05"
                /\ {stdout'[Len(stdout')].result.capabilities.tools[k] :
                      k \in DOMAIN stdout'[Len(stdout')].result.capabilities.tools}
                     = Registered
                /\ stdout'[Len(stdout')].result.serverInfo
                     = [name |-> "playmcp-browser", version |-> "1.0.0"]
                /\ UNCHANGED <<state, currentMousePosition, listeners, live, launched,
                               handlers, jobs, rejected, pendingRejection, proc>>
       /\ Len(stdout') > Len(stdout) =>
            \A i \in DOMAIN stdout : stdout[i].line # stdout'[Len(stdout')].line
       /\ (/\ StartsLine
           /\ Head(lines).msg.kind \in {"list", "call"}
           /\ \E i \in DOMAIN stdout : IsResponseTo(i, "initialize")) =>
             /\ Head(lines).line \in DOMAIN handlers'
             /\ handlers'[Head(lines).line].msg = Head(lines).msg]_vars

\* After an initialize response, a tools/list and a tools/call were answered.
C16_Witness ==
    \E i, j, k \in DOMAIN stdout :
        /\ i < j /\ i < k
        /\ IsResponseTo(i, "initialize")
        /\ IsResponseTo(j, "tools/list")
        /\ stdout[k].env = "result" /\ "result" \notin DOMAIN stdout[k]

\* C17: the tool registry is never modified: every tools/list response, after
\* any requests, lists every registered descriptor in registration order, so
\* any two tools/list responses of the process have the same result.
C17_ListIsConstant ==
    /\ \A i \in DOMAIN stdout :
          IsResponseTo(i, "tools/list") =>
             stdout[i].result.tools = ToolNames
    /\ \A i, j \in DOMAIN stdout :
          (IsResponseTo(i, "tools/list") /\ IsResponseTo(j, "tools/list")) =>
             stdout[i].result = stdout[j].result

\* Two tools/list responses with a tool call answered between them.
C17_Witness ==
    \E i, j, k \in DOMAIN stdout :
        /\ i < k /\ k < j
        /\ IsResponseTo(i, "tools/list")
        /\ IsResponseTo(j, "tools/list")
        /\ stdout[k].env = "result" /\ "result" \notin DOMAIN stdout[k]

\* The step runs the statements that follow the awaited page operation of
\* handler id.
FinishesPageOp(id) ==
    /\ id \in InFlight
    /\ handlers[id].pc = "pageOp"
    /\ handlers[id].st = "job"
    /\ id \in DOMAIN handlers'
    /\ handlers'[id].pc = "ct_resume"

\* C18: the recorded mouse position is the point of the most recent
\* successful moveMouse, mouseMove or mouseClick or the end point of the most
\* recent successful mouseDrag (initially (0,0)); a failed operation leaves
\* it unchanged; a click called without a selector clicks at the recorded
\* position instead of being rejected.
C18_MousePosition ==
    [][/\ \A id \in InFlight :
            (FinishesPageOp(id) /\ handlers[id].msg.name \in MouseTools) =>
               currentMousePosition' =
                  IF handlers[id].res = "ok" THEN handlers[id].msg.args.pos
                  ELSE currentMousePosition
       /\ currentMousePosition' # currentMousePosition =>
            \E id \in InFlight :
               FinishesPageOp(id) /\ handlers[id].msg.name \in MouseTools
       /\ (/\ StartsLine
           /\ IsToolCall(Head(lines).msg)
           /\ Head(lines).msg.name = "click"
           /\ Head(lines).msg.args.cls = "absent"
           /\ SessionOpen) =>
             /\ Head(lines).line \in DOMAIN handlers'
             /\ handlers'[Head(lines).line].pc = "pageOp"
             /\ ~handlers'[Head(lines).line].result.isError]_vars

\* The listeners registered before listener b for the same event of the same page.
EarlierListeners(b) ==
    {i \in 1..(b - 1) : /\ listeners[i].page = listeners[b].page
                        /\ listeners[i].event = listeners[b].event}

\* C19: getConsoleMessages and getNetworkRequests return the events
\* accumulated since the listener was registered: the list returned by a call
\* contains the events that occurred on the page after an earlier call of the
\* tool, and the first call, before which no listener existed, reports none.
C19_ReturnsAccumulatedEvents ==
    [][\A id \in InFlight :
          (/\ Responds(id)
           /\ handlers[id].msg.name \in DataListenerTools
           /\ ~handlers[id].result.isError) =>
             LET b == handlers[id].b
                 returned == SubSeq(stdout'[Len(stdout')].text, 2,
                                    Len(stdout'[Len(stdout')].text))
             IN  /\ \A i \in EarlierListeners(b) :
                       /\ Len(listeners[i].buf) <= Len(returned)
                       /\ \A k \in DOMAIN listeners[i].buf :
                             \E n \in DOMAIN returned : returned[n] = listeners[i].buf[k]
                 /\ EarlierListeners(b) = {} => returned = <<>>]_vars

\* C20: the handler that handleDialog installs is one-shot, and every dialog
\* is accepted or dismissed at most once, also when handleDialog was called
\* several times, with equal or different accept values, before the dialog
\* appeared.
C20_DialogHandledOnce ==
    \A i \in DOMAIN dialogs : Len(dialogs[i]) <= 1

----------------------------------------------------------------------------
\* EnhancedTargetedScanner (Puppeteer)

\* A value that is not an array, where a list is recorded by its length.
NotArray == -1

Min(a, b) ==
    IF a < b THEN a ELSE b

\* The objects a chat completion's content may parse to.  A field that is
\* absent is recorded as "" or as NotArray.
InsightObjects ==
    {[toolOverview |-> "overview", teacherBenefits |-> 5, commonUseCases |-> 5,
      setupComplexity |-> "easy", bestFeatures |-> 5],
     [toolOverview |-> "overview", teacherBenefits |-> 7, commonUseCases |-> 0,
      setupComplexity |-> "hard", bestFeatures |-> NotArray],
     [toolOverview |-> "", teacherBenefits |-> NotArray, commonUseCases |-> NotArray,
      setupComplexity |-> "", bestFeatures |-> NotArray]}

\* What openai.chat.completions.create may come to: the request is rejected
\* ("error"), the content is missing or empty ("empty"), the content is not
\* JSON ("invalid"), it is the JSON text null ("null"), or it is an object.
ChatCompletions ==
    {[kind |-> k, value |-> CHOOSE o \in InsightObjects : o.toolOverview = ""] :
        k \in {"error", "empty", "invalid", "null"}}
    \cup {[kind |-> "object", value |-> o] : o \in InsightObjects}

\* setDefaultInsights of EnhancedTargetedScanner.
EnhancedDefaultInsights ==
    [toolOverview |-> "default", teacherBenefits |-> 5, commonUseCases |-> 5,
     setupComplexity |-> "medium", bestFeatures |-> 5]

\* result.aiInsights after generateAIInsights: the sanitised object, or the
\* defaults when the request throws, the content is empty, JSON.parse throws or
\* reading a property of null throws.
EnhancedInsightsOf(completion) ==
    LET o == completion.value
        list(n) == IF n # NotArray THEN Min(n, 5) ELSE 5
    IN  IF completion.kind = "object"
        THEN [toolOverview |-> IF o.toolOverview # "" THEN o.toolOverview ELSE "fallback",
              teacherBenefits |-> list(o.teacherBenefits),
              commonUseCases |-> list(o.commonUseCases),
              setupComplexity |-> IF o.setupComplexity \in {"easy", "medium", "complex"}
                                  THEN o.setupComplexity ELSE "medium",
              bestFeatures |-> list(o.bestFeatures)]
        ELSE EnhancedDefaultInsights

\* performDeepTargetedScan up to Promise.allSettled: deepScanSingleUrl is
\* called for every URL of the request and runs to its first await.
EnhancedPerformDeepTargetedScan ==
    /\ enhanced.phase = "idle"
    /\ \E urls \in SUBSET UrlTypes :
         enhanced' = [enhanced EXCEPT
            !.phase = "scanning",
            !.scans = [u \in UrlTypes |->
                         IF u \in urls THEN [NoScan EXCEPT !.pc = "launchBrowser"]
                         ELSE [NoScan EXCEPT !.pc = "absent"]]]
    /\ UNCHANGED besidesEnhanced

\* The awaits of deepScanSingleUrl in order, each with the one that follows.
EnhancedAfter ==
    [launchBrowser |-> "newPage", newPage |-> "setUserAgent", setUserAgent |-> "goto",
     goto |-> "setTimeout", setTimeout |-> "evaluate", evaluate |-> "close",
     close |-> "analyzePageWithAI", analyzePageWithAI |-> "processPageData",
     processPageData |-> "done"]

\* The awaits that cannot reject: the timer, and analyzePageWithAI, which
\* catches everything.
EnhancedNeverThrows ==
    {"setTimeout", "analyzePageWithAI"}

\* One await of deepScanSingleUrl for the URL `u` settles.  The browser of the
\* scan is named by its URL type.  A rejection goes to the catch clause, which
\* records the error; browser.close() is reached only after page.evaluate.
EnhancedDeepScanSingleUrl(u) ==
    LET s == enhanced.scans[u]
        failed == [urlType |-> u, text |-> "scan failed"]
        protected == [urlType |-> u, text |-> "Page has bot protection enabled"]
    IN  /\ enhanced.phase = "scanning"
        /\ s.pc \in DOMAIN EnhancedAfter
        /\ \/ /\ s.pc \notin EnhancedNeverThrows
              /\ enhanced' = [enhanced EXCEPT !.scans[u].pc = "done",
                                              !.errors = Append(@, failed)]
           \/ /\ s.pc = "launchBrowser"
              /\ enhanced' = [enhanced EXCEPT !.scans[u].pc = EnhancedAfter[s.pc],
                                              !.open = @ \cup {u}]
           \/ /\ s.pc = "evaluate"
              /\ \E isProtected \in BOOLEAN :
                   enhanced' = [enhanced EXCEPT !.scans[u].pc = EnhancedAfter[s.pc],
                                                !.scans[u].isProtected = isProtected]
           \/ /\ s.pc = "close"
              /\ enhanced' = [enhanced EXCEPT
                    !.open = @ \ {u},
                    !.scans[u].pc = IF s.isProtected THEN "done" ELSE EnhancedAfter[s.pc],
                    !.errors = IF s.isProtected THEN Append(@, protected) ELSE @]
           \/ /\ s.pc \notin {"launchBrowser", "evaluate", "close"}
              /\ enhanced' = [enhanced EXCEPT !.scans[u].pc = EnhancedAfter[s.pc]]
        /\ UNCHANGED besidesEnhanced

\* Promise.allSettled resolves, then generateAIInsights runs with the
\* completion the API gives.
EnhancedGenerateAIInsights ==
    /\ enhanced.phase = "scanning"
    /\ \A u \in UrlTypes : enhanced.scans[u].pc \in {"absent", "done"}
    /\ \E completion \in ChatCompletions :
         enhanced' = [enhanced EXCEPT !.phase = "enhanceResourcesWithAI",
                                      !.completion = completion.kind,
                                      !.aiInsights = EnhancedInsightsOf(completion)]
    /\ UNCHANGED besidesEnhanced

\* enhanceResourcesWithAI, which catches per resource, then the metadata
\* update and `return result`.
EnhancedReturn ==
    /\ enhanced.phase = "enhanceResourcesWithAI"
    /\ enhanced' = [enhanced EXCEPT !.phase = "returned"]
    /\ UNCHANGED besidesEnhanced

NextEnhanced ==
    \/ EnhancedPerformDeepTargetedScan
    \/ \E u \in UrlTypes : EnhancedDeepScanSingleUrl(u)
    \/ EnhancedGenerateAIInsights
    \/ EnhancedReturn

SpecEnhanced ==
    Init /\ [][NextEnhanced]_vars

\* C21: every browser launched by a scan is closed on every exit path: no
\* scan of a URL has returned, or has recorded its error, while the browser it
\* launched is still open.
C21_BrowserClosedOnEveryExit ==
    \A u \in UrlTypes : enhanced.scans[u].pc = "done" => u \notin enhanced.open

----------------------------------------------------------------------------
\* The Express scanner services: POST /scan

\* The files that start a service with a POST /scan route.  build.sh holds
\* the service that scans with its own PlaywrightScanner.
Variants ==
    {"index.js", "index-light.js", "index-simple.js", "build.sh"}

\* The X-API-Key header, the `url` and the `engine` of a request body.
Keys ==
    {"absent", "wrong", "configured"}

Urls ==
    {"missing", "empty", "url"}

Engines ==
    {"absent", "playwright", "puppeteer"}

\* !url
UrlIsFalsy(url) ==
    url \in {"missing", "empty"}

Unauthorized ==
    [status |-> 401, error |-> "Unauthorized"]

UrlRequired ==
    [status |-> 400, error |-> "URL is required"]

ScanFailed ==
    [status |-> 500, error |-> "error.message"]

ScanSucceeded ==
    [status |-> 200, error |-> ""]

\* The middleware of the route: authenticateRequest in index.js, none in the
\* other files.
AuthenticateRequest(variant, key) ==
    variant = "index.js" => key = "configured"

\* The browser a request is scanned with: `engine = 'playwright'` by default
\* in index.js, Puppeteer in index-light.js, chromium of Playwright in build.sh.
EngineOf(variant, engine) ==
    IF variant = "index.js"
    THEN IF engine = "puppeteer" THEN "puppeteer" ELSE "playwright"
    ELSE IF variant = "index-light.js" THEN "puppeteer" ELSE "playwright"

\* The route handler without its test of `url`.
ScanHandler_NoUrlTest(variant, req) ==
    IF ~AuthenticateRequest(variant, req.key)
    THEN [req EXCEPT !.pc = "done", !.responses = Append(@, Unauthorized)]
    ELSE IF variant = "index-simple.js" THEN [req EXCEPT !.pc = "fetch"]
    ELSE [req EXCEPT !.pc = "launch"]

\* The synchronous start of the route handler for the request `req`: the
\* middleware, the test of `url`, and the call that reaches the first await.
ScanHandler(variant, req) ==
    IF ~AuthenticateRequest(variant, req.key)
    THEN [req EXCEPT !.pc = "done", !.responses = Append(@, Unauthorized)]
    ELSE IF UrlIsFalsy(req.url)
    THEN [req EXCEPT !.pc = "done", !.responses = Append(@, UrlRequired)]
    ELSE IF variant = "index-simple.js" THEN [req EXCEPT !.pc = "fetch"]
    ELSE [req EXCEPT !.pc = "launch"]

\* node <file>: one of the services starts to listen.  OPENAI_API_KEY is read
\* by the scanner of build.sh only.
Listen ==
    /\ service.variant = "none"
    /\ \E v \in Variants, openaiKey \in BOOLEAN :
         /\ openaiKey => v = "build.sh"
         /\ service' = [service EXCEPT !.variant = v, !.openaiKey = openaiKey]
    /\ UNCHANGED besidesService

\* A client posts to /scan.
PostScan(r) ==
    /\ service.variant # "none"
    /\ service.requests[r].pc = "idle"
    /\ \E key \in Keys, url \in Urls, engine \in Engines :
         service' = [service EXCEPT !.requests[r] =
            ScanHandler(service.variant,
                        [NoRequest EXCEPT !.key = key, !.url = url, !.engine = engine])]
    /\ UNCHANGED besidesService

\* The request after res.json / res.status(..).json of `response`.
Answered(req, response) ==
    [req EXCEPT !.pc = "done", !.responses = Append(@, response)]

\* The request after chromium.launch / puppeteer.launch settles.
Launched(variant, req, ok) ==
    [req EXCEPT !.launches = Append(@, [engine |-> EngineOf(variant, req.engine),
                                        ok |-> ok]),
                !.open = ok]

\* index.js: scanWithPlaywright and scanWithPuppeteer launch outside the try,
\* scan inside it and close the browser in the finally; the route's catch
\* answers 500 for whatever is thrown.
IndexScan(r) ==
    LET req == service.requests[r]
    IN  /\ service.variant = "index.js"
        /\ \E ok \in BOOLEAN :
             \/ /\ req.pc = "launch"
                /\ service' = [service EXCEPT !.requests[r] =
                      IF ok THEN [Launched(service.variant, req, ok) EXCEPT !.pc = "scan"]
                      ELSE Answered(Launched(service.variant, req, ok), ScanFailed)]
             \/ /\ req.pc = "scan"
                /\ service' = [service EXCEPT !.requests[r] =
                      [req EXCEPT !.pc = "close", !.scanned = ok]]
             \/ /\ req.pc = "close"
                /\ service' = [service EXCEPT !.requests[r] =
                      IF ok
                      THEN Answered([req EXCEPT !.open = FALSE],
                                    IF req.scanned THEN ScanSucceeded ELSE ScanFailed)
                      ELSE Answered(req, ScanFailed)]
        /\ UNCHANGED besidesService

\* index-light.js: the launch, the scan and browser.close() are in one try;
\* the catch closes the browser if there is one and answers 500.  A
\* browser.close() that rejects inside the catch rejects the handler.
LightScan(r) ==
    LET req == service.requests[r]
    IN  /\ service.variant = "index-light.js"
        /\ \E ok \in BOOLEAN :
             \/ /\ req.pc = "launch"
                /\ service' = [service EXCEPT !.requests[r] =
                      IF ok THEN [Launched(service.variant, req, ok) EXCEPT !.pc = "scan"]
                      ELSE Answered(Launched(service.variant, req, ok), ScanFailed)]
             \/ /\ req.pc = "scan"
                /\ service' = [service EXCEPT !.requests[r] =
                      [req EXCEPT !.pc = IF ok THEN "close" ELSE "catch", !.scanned = ok]]
             \/ /\ req.pc = "close"
                /\ service' = [service EXCEPT !.requests[r] =
                      IF ok THEN Answered([req EXCEPT !.open = FALSE], ScanSucceeded)
                      ELSE [req EXCEPT !.pc = "catch"]]
             \/ /\ req.pc = "catch"
                /\ service' = [service EXCEPT !.requests[r] =
                      IF ok THEN Answered([req EXCEPT !.open = FALSE], ScanFailed)
                      ELSE [req EXCEPT !.pc = "rejected"]]
        /\ UNCHANGED besidesService

\* index-simple.js: fetch(url), then response.text().
SimpleScan(r) ==
    LET req == service.requests[r]
    IN  /\ service.variant = "index-simple.js"
        /\ \E ok \in BOOLEAN :
             \/ /\ req.pc = "fetch"
                /\ service' = [service EXCEPT !.requests[r] =
                      IF ok THEN [req EXCEPT !.pc = "text", !.fetches = @ + 1]
                      ELSE Answered([req EXCEPT !.fetches = @ + 1], ScanFailed)]
             \/ /\ req.pc = "text"
                /\ service' = [service EXCEPT !.requests[r] =
                      IF ok THEN Answered([req EXCEPT !.scanned = TRUE], ScanSucceeded)
                      ELSE Answered(req, ScanFailed)]
        /\ UNCHANGED besidesService

\* generateAIInsights of the PlaywrightScanner of build.sh: a parsed object is
\* copied over result.aiInsights; every failure is logged and leaves
\* result.aiInsights as it was.
BuildInsightsOf(aiInsights, completion) ==
    LET o == completion.value
    IN  IF completion.kind = "object"
        THEN [toolOverview |-> IF o.toolOverview # "" THEN o.toolOverview
                               ELSE aiInsights.toolOverview,
              teacherBenefits |-> IF o.teacherBenefits # NotArray THEN o.teacherBenefits
                                  ELSE aiInsights.teacherBenefits,
              commonUseCases |-> IF o.commonUseCases # NotArray THEN o.commonUseCases
                                 ELSE aiInsights.commonUseCases,
              setupComplexity |-> IF o.setupComplexity # "" THEN o.setupComplexity
                                  ELSE aiInsights.setupComplexity,
              bestFeatures |-> IF o.bestFeatures # NotArray THEN o.bestFeatures
                               ELSE aiInsights.bestFeatures]
        ELSE aiInsights

\* build.sh: the route awaits performDeepTargetedScan({main: url}) of its
\* PlaywrightScanner, which catches what the launch and the scan throw, closes
\* the browser in its finally and returns the result; the route answers 200
\* with it, and 500 only when the finally throws.  scanUrl catches its own
\* errors; its finally may throw ("closeThrew"), which skips the insights.
BuildScan(r) ==
    LET req == service.requests[r]
    IN  /\ service.variant = "build.sh"
        /\ \/ /\ req.pc = "launch"
              /\ \E ok \in BOOLEAN :
                   service' = [service EXCEPT !.requests[r] =
                      IF ok THEN [Launched(service.variant, req, ok) EXCEPT !.pc = "scanUrl"]
                      ELSE Answered(Launched(service.variant, req, ok), ScanSucceeded)]
           \/ /\ req.pc = "scanUrl"
              /\ \E outcome \in {"scanned", "caught", "closeThrew"} :
                   service' = [service EXCEPT !.requests[r] =
                      [req EXCEPT !.scanned = (outcome = "scanned"),
                                  !.pc = IF outcome # "closeThrew" /\ service.openaiKey
                                         THEN "generateAIInsights" ELSE "close"]]
           \/ /\ req.pc = "generateAIInsights"
              /\ \E completion \in ChatCompletions :
                   service' = [service EXCEPT !.requests[r] =
                      [req EXCEPT !.pc = "close",
                                  !.completion = completion.kind,
                                  !.aiInsights = BuildInsightsOf(@, completion)]]
           \/ /\ req.pc = "close"
              /\ \E ok \in BOOLEAN :
                   service' = [service EXCEPT !.requests[r] =
                      IF ok THEN Answered([req EXCEPT !.open = FALSE], ScanSucceeded)
                      ELSE Answered(req, ScanFailed)]
        /\ UNCHANGED besidesService

NextService ==
    \/ Listen
    \/ \E r \in 1..MaxRequests :
         \/ PostScan(r)
         \/ IndexScan(r)
         \/ LightScan(r)
         \/ SimpleScan(r)
         \/ BuildScan(r)

SpecService ==
    Init /\ [][NextService]_vars

\* The chat-completion outcomes that are failures of the API.
CompletionFailures ==
    {"error", "empty", "invalid"}

\* C22: a failure of the chat-completion API never aborts a scan:
\* performDeepTargetedScan still returns a result, and the aiInsights of that
\* result hold the hard-coded non-empty default values.
C22_InsightsDegradeToDefaults ==
    /\ enhanced.phase = "returned" /\ enhanced.completion \in CompletionFailures
          => enhanced.aiInsights = EnhancedDefaultInsights
    /\ \A r \in 1..MaxRequests :
         LET req == service.requests[r]
         IN  req.pc = "done" /\ req.completion \in CompletionFailures
                => /\ req.aiInsights.toolOverview # ""
                   /\ req.aiInsights.teacherBenefits > 0
                   /\ req.aiInsights.commonUseCases > 0
                   /\ req.aiInsights.bestFeatures > 0

----------------------------------------------------------------------------
\* Waiting for a text or a selector

\* The `timeout` arguments tried: left out, 0 and 500 ms.
TimeoutArgs ==
    {Undefined, 0, 500}

\* A client that opens a browser and waits for texts and selectors, one line
\* at a time.
WaitMessages ==
    {Msg("call", "openBrowser", NoArgs)}
      \cup {Msg("call", n, [NoArgs EXCEPT !.timeout = t]) :
               n \in WaitTools, t \in TimeoutArgs}
      \cup {Msg("call", n, [NoArgs EXCEPT !.cls = "absent"]) : n \in WaitTools}

ClientSendsWaits ==
    /\ InFlight = {}
    /\ StdinData(WaitMessages, MaxWaitLines, 1)

NextWait ==
    \/ ClientSendsWaits
    \/ HandleInput
    \/ RunJob
    \/ BrowserReplies

SpecWait ==
    Init /\ [][NextWait]_vars

\* The handler of line id awaits page.waitForSelector.
AwaitsTarget(id) ==
    /\ id \in InFlight
    /\ handlers[id].msg.name \in WaitTools
    /\ handlers[id].pc = "pageOp"
    /\ handlers[id].st = "io"

\* C23: waitForSelector and waitForText never wait forever for a target that
\* does not appear: every pending wait has a timer that ends it with the error
\* '... not found within timeout', and the timer is set to 30000 ms when the
\* call has no timeout argument.
C23_WaitsEndByTimeout ==
    \A id \in InFlight :
        AwaitsTarget(id) =>
           /\ ArmsTimer(TimeoutOf(handlers[id].msg.args))
           /\ handlers[id].msg.args.timeout = Undefined
                 => TimeoutOf(handlers[id].msg.args) = 30000

----------------------------------------------------------------------------
\* Scrolling

\* The amounts tried: within the document, beyond its end, and before its
\* start on one axis.
ScrollAmounts ==
    {<<1, 0>>, <<0, MaxScrollY + 1>>, <<-1, 1>>}

\* A client that opens a browser and scrolls, one line at a time.
ScrollMessages ==
    {Msg("call", "openBrowser", NoArgs)}
      \cup {Msg("call", "scroll", [NoArgs EXCEPT !.delta = d, !.smooth = s]) :
               d \in ScrollAmounts, s \in BOOLEAN}
      \cup {Msg("call", "scroll", [NoArgs EXCEPT !.cls = "absent"])}

ClientSendsScrolls ==
    /\ InFlight = {}
    /\ StdinData(ScrollMessages, MaxScrollLines, 1)

NextScroll ==
    \/ ClientSendsScrolls
    \/ HandleInput
    \/ RunJob
    \/ BrowserReplies

SpecScroll ==
    Init /\ [][NextScroll]_vars

\* The response at position i of stdout reports a scroll.
IsScrollReport(i) ==
    ~stdout[i].isError /\ stdout[i].text = <<SuccessText["scroll"]>>

\* C24: the scroll response reports the position read before and after the
\* scroll and scrolled = after - before on each axis; that is the change the
\* page applied, which is clamped at the bounds of the document: `after` is
\* where the page is, and for a scroll that is not smooth it is the clamped sum
\* of `before` and the requested amounts.
C24_ScrolledIsAfterMinusBefore ==
    [][\A id \in InFlight :
          Responds(id) /\ handlers[id].msg.name = "scroll" /\ ~handlers[id].result.isError
             => LET d == stdout'[Len(stdout')].data
                    args == handlers[id].msg.args
                IN  /\ d.scrolled[1] = d.after[1] - d.before[1]
                    /\ d.scrolled[2] = d.after[2] - d.before[2]
                    /\ d.after = window
                    /\ ~args.smooth =>
                          d.after = <<Clamp(d.before[1], args.delta[1], MaxScrollX),
                                      Clamp(d.before[2], args.delta[2], MaxScrollY)>>]_vars

\* A scroll from the top beyond the end of the document was reported: the
\* page scrolled less than requested.
C24_Witness ==
    \E i \in DOMAIN stdout :
        /\ IsScrollReport(i)
        /\ stdout[i].data.before = <<0, 0>>
        /\ stdout[i].data.scrolled = <<0, MaxScrollY>>

----------------------------------------------------------------------------
\* Claims on POST /scan

\* The request r has been received.
Received(r) ==
    service.requests[r].pc # "idle"

\* C25: all scan requests need the X-API-Key header: in every service that
\* has the route, a POST /scan whose X-API-Key header is absent or differs from
\* the configured key is answered 401, launches no browser and makes no fetch.
C25_ScanNeedsApiKey ==
    \A r \in 1..MaxRequests :
        LET req == service.requests[r]
        IN  Received(r) /\ req.key # "configured"
               => /\ req.responses = <<Unauthorized>>
                  /\ req.launches = <<>>
                  /\ req.fetches = 0

C27_FallsBackToPuppeteer ==
    \A r \in 1..MaxRequests :
        LET req == service.requests[r]
        IN  /\ req.pc = "done"
            /\ \E i \in DOMAIN req.launches :
                 req.launches[i] = [engine |-> "playwright", ok |-> FALSE]
            => /\ \E i \in DOMAIN req.launches : req.launches[i].engine = "puppeteer"
               /\ ScanFailed \notin {req.responses[i] : i \in DOMAIN req.responses}

----------------------------------------------------------------------------
\* HybridScanner

\* What the host offers: the playwright package with a chromium that launches
\* ("works"), with one that does not ("launchFails"), or no playwright package
\* ("missing"); and whether require('puppeteer') succeeds.
PlaywrightHosts ==
    {"works", "launchFails", "missing"}

\* The catch of initializeScanner: Puppeteer if it can be required, else basic.
FallbackType(puppeteer) ==
    IF puppeteer THEN "puppeteer" ELSE "basic"

\* new HybridScanner(): scannerType = null, then initializeScanner() runs to
\* its first await, chromium.launch; a require('playwright') that throws is
\* caught at once.
HybridConstructor ==
    /\ hybrid.init = "none"
    /\ \E playwright \in PlaywrightHosts, puppeteer \in BOOLEAN :
         hybrid' = [hybrid EXCEPT
            !.playwright = playwright,
            !.puppeteer = puppeteer,
            !.init = IF playwright = "missing" THEN "done" ELSE "launch",
            !.scannerType = IF playwright = "missing" THEN FallbackType(puppeteer)
                            ELSE "null"]
    /\ UNCHANGED besidesHybrid

\* initializeScanner after chromium.launch and after testBrowser.close().
InitializeScanner ==
    /\ \/ /\ hybrid.init = "launch"
          /\ hybrid' = IF hybrid.playwright = "works"
                       THEN [hybrid EXCEPT !.init = "close"]
                       ELSE [hybrid EXCEPT !.init = "done",
                                           !.scannerType = FallbackType(hybrid.puppeteer)]
       \/ /\ hybrid.init = "close"
          /\ \E ok \in BOOLEAN :
               hybrid' = [hybrid EXCEPT
                  !.init = "done",
                  !.scannerType = IF ok THEN "playwright"
                                  ELSE FallbackType(hybrid.puppeteer)]
    /\ UNCHANGED besidesHybrid

\* performDeepTargetedScan up to its first await: metadata.scannerType is
\* this.scannerType as it is now; 'basic' scans with fetch; 'playwright'
\* launches chromium; anything else, null included, launches Puppeteer.
HybridPerformDeepTargetedScan(c) ==
    /\ hybrid.init # "none"
    /\ hybrid.calls[c].pc = "idle"
    /\ hybrid' = [hybrid EXCEPT !.calls[c] =
          [pc |-> IF hybrid.scannerType = "basic" THEN "basicScan" ELSE "launch",
           scannerType |-> hybrid.scannerType,
           engine |-> IF hybrid.scannerType = "basic" THEN "basic"
                      ELSE IF hybrid.scannerType = "playwright" THEN "playwright"
                      ELSE "puppeteer"]]
    /\ UNCHANGED besidesHybrid

\* The awaits of a call: the launch, whose failure is caught and followed by
\* the basic scan of every URL; browserScan and basicScan, which catch their
\* own errors; browser.close() in the finally; then generateAIInsights, which
\* catches its errors, and the return.
HybridScan(c) ==
    LET call == hybrid.calls[c]
        launches == IF call.engine = "playwright" THEN hybrid.playwright = "works"
                    ELSE hybrid.puppeteer
    IN  /\ \/ /\ call.pc = "launch"
              /\ hybrid' = [hybrid EXCEPT !.calls[c] =
                    IF launches THEN [call EXCEPT !.pc = "browserScan"]
                    ELSE [call EXCEPT !.pc = "basicScan", !.engine = "basic"]]
           \/ /\ call.pc = "browserScan"
              /\ hybrid' = [hybrid EXCEPT !.calls[c].pc = "close"]
           \/ /\ call.pc = "close"
              /\ \E ok \in BOOLEAN :
                   hybrid' = [hybrid EXCEPT !.calls[c].pc =
                                 IF ok THEN "generateAIInsights" ELSE "thrown"]
           \/ /\ call.pc = "basicScan"
              /\ hybrid' = [hybrid EXCEPT !.calls[c].pc = "generateAIInsights"]
           \/ /\ call.pc = "generateAIInsights"
              /\ hybrid' = [hybrid EXCEPT !.calls[c].pc = "returned"]
        /\ UNCHANGED besidesHybrid

NextHybrid ==
    \/ HybridConstructor
    \/ InitializeScanner
    \/ \E c \in 1..MaxHybridCalls :
         \/ HybridPerformDeepTargetedScan(c)
         \/ HybridScan(c)

SpecHybrid ==
    Init /\ [][NextHybrid]_vars

\* C28: HybridScanner scans with Playwright whenever Playwright is available,
\* and with Puppeteer (or without a browser) only when Playwright failed to
\* launch, also for a call made before initializeScanner has finished.
C28_PlaywrightWheneverAvailable ==
    \A c \in 1..MaxHybridCalls :
        hybrid.calls[c].pc # "idle" /\ hybrid.playwright = "works"
           => hybrid.calls[c].engine = "playwright"

----------------------------------------------------------------------------
\* PlaywrightScanner (the singleton playwrightScanner)

\* One pass of the while loop with a protection page retried whenever a retry
\* is left.
AfterAttempt_RetriesProtectedAlways(loop, outcome) ==
    LET tried == [loop EXCEPT !.gotos = @ + 1, !.last = outcome]
    IN  IF outcome = "failed"
          THEN [tried EXCEPT !.retries = @ - 1, !.thrown = (loop.retries - 1 = 0)]
        ELSE IF outcome = "protected" /\ loop.retries > 0
          THEN [tried EXCEPT !.retries = @ - 1]
        ELSE [tried EXCEPT !.pageLoaded = TRUE]

\* One pass of `while (retries > 0 && !pageLoaded)`: page.goto, the wait and
\* page.title().  "failed": one of them rejects, the catch takes a retry and
\* rethrows when none is left.  "protected": the title is that of a protection
\* page, which is retried if more than one attempt is left.  Else the page is
\* loaded.
AfterAttempt(loop, outcome) ==
    LET tried == [loop EXCEPT !.gotos = @ + 1, !.last = outcome]
    IN  IF outcome = "failed"
          THEN [tried EXCEPT !.retries = @ - 1, !.thrown = (loop.retries - 1 = 0)]
        ELSE IF outcome = "protected" /\ loop.retries > 1
          THEN [tried EXCEPT !.retries = @ - 1]
        ELSE [tried EXCEPT !.pageLoaded = TRUE]

\* setDefaultInsights of PlaywrightScanner.
ScannerDefaultInsights ==
    [toolOverview |-> "default", teacherBenefits |-> 5, commonUseCases |-> 5,
     setupComplexity |-> "medium", bestFeatures |-> 5]

\* OPENAI_API_KEY is not set: generateAIInsights sets the defaults and returns.
NoApiKey ==
    [kind |-> "nokey", value |-> CHOOSE o \in InsightObjects : o.toolOverview = ""]

\* result.aiInsights after generateAIInsights of PlaywrightScanner: the object
\* with a fallback per field, or the defaults when there is no key, the
\* request throws, the content is empty or JSON.parse throws.
ScannerInsightsOf(completion) ==
    LET o == completion.value
        list(n) == IF n # NotArray THEN n ELSE 0
    IN  IF completion.kind = "object"
        THEN [toolOverview |-> IF o.toolOverview # "" THEN o.toolOverview ELSE "fallback",
              teacherBenefits |-> list(o.teacherBenefits),
              commonUseCases |-> list(o.commonUseCases),
              setupComplexity |-> IF o.setupComplexity \in {"easy", "medium", "complex"}
                                  THEN o.setupComplexity ELSE "medium",
              bestFeatures |-> list(o.bestFeatures)]
        ELSE ScannerDefaultInsights

\* result.metadata.errors.push(`${urlType} scan failed: ...`)
ScanFailedError(call) ==
    [call EXCEPT !.errors = Append(@, "main scan failed")]

\* The finally of performDeepTargetedScan is entered: close this.browser, which
\* is whatever call assigned the field last, if it is not null.
EnterFinally(call, thrown) ==
    IF scanner.browser # Null
    THEN [call EXCEPT !.pc = "closeBrowser", !.closing = scanner.browser,
                      !.thrown = thrown]
    ELSE [call EXCEPT !.pc = IF thrown THEN "thrown" ELSE "returned", !.thrown = thrown]

\* performDeepTargetedScan({main: url}, toolName) up to chromium.launch.
ScannerPerformDeepTargetedScan(c) ==
    /\ scanner.calls[c].pc = "idle"
    /\ scanner' = [scanner EXCEPT !.calls[c].pc = "launch"]
    /\ UNCHANGED besidesScanner

\* chromium.launch settles: this.browser is assigned and deepScanSingleUrl is
\* called for the URL; or the finally runs and the call rejects.
ScannerLaunch(c) ==
    LET call == scanner.calls[c]
        b == scanner.launched + 1
    IN  /\ call.pc = "launch"
        /\ \/ scanner' = [scanner EXCEPT !.browser = b,
                                         !.open = @ \cup {b},
                                         !.launched = b,
                                         !.calls[c] = [call EXCEPT !.pc = "newContext",
                                                                   !.own = b]]
           \/ scanner' = [scanner EXCEPT !.calls[c] = EnterFinally(call, TRUE)]
        /\ UNCHANGED besidesScanner

\* The awaits of deepScanSingleUrl.  Every operation on the browser of the
\* call fails once that browser is closed.  The catch records the error; the
\* finally closes the page, then the context; Promise.allSettled absorbs what
\* the finally throws.
ScannerDeepScanSingleUrl(c) ==
    LET call == scanner.calls[c]
        alive == call.own \in scanner.open
        to(pc) == [call EXCEPT !.pc = pc]
        caught(pc) == ScanFailedError(to(pc))
    IN  /\ \/ /\ call.pc = "newContext"
              /\ \E ok \in {alive, FALSE} :
                   scanner' = [scanner EXCEPT !.calls[c] =
                      IF ok THEN to("newPage") ELSE caught("generateAIInsights")]
           \/ /\ call.pc = "newPage"
              /\ \E ok \in {alive, FALSE} :
                   scanner' = [scanner EXCEPT !.calls[c] =
                      IF ok THEN to("goto") ELSE caught("closeContext")]
           \/ /\ call.pc = "goto"
              /\ \E outcome \in {"loaded", "protected", "failed"} :
                   /\ outcome # "failed" => alive
                   /\ LET loop == AfterAttempt(call.loop, outcome)
                          next == [call EXCEPT !.loop = loop]
                      IN  scanner' = [scanner EXCEPT !.calls[c] =
                             IF loop.thrown
                               THEN ScanFailedError([next EXCEPT !.pc = "closePage"])
                             ELSE IF loop.retries > 0 /\ ~loop.pageLoaded THEN next
                             ELSE [next EXCEPT !.pc = "evaluate"]]
           \/ /\ call.pc = "evaluate"
              /\ \E ok \in {alive, FALSE} :
                   scanner' = [scanner EXCEPT !.calls[c] =
                      IF ok THEN to("closePage") ELSE caught("closePage")]
           \/ /\ call.pc = "closePage"
              /\ \E ok \in {alive, FALSE} :
                   scanner' = [scanner EXCEPT !.calls[c] =
                      IF ok THEN to("closeContext") ELSE to("generateAIInsights")]
           \/ /\ call.pc = "closeContext"
              /\ scanner' = [scanner EXCEPT !.calls[c] = to("generateAIInsights")]
        /\ UNCHANGED besidesScanner

\* generateAIInsights, then enhanceResourcesWithAI, which catches per
\* resource, then the finally.
ScannerGenerateAIInsights(c) ==
    LET call == scanner.calls[c]
    IN  /\ \/ /\ call.pc = "generateAIInsights"
              /\ \E completion \in ChatCompletions \cup {NoApiKey} :
                   scanner' = [scanner EXCEPT !.calls[c] =
                      [call EXCEPT !.pc = "enhanceResourcesWithAI",
                                   !.completion = completion.kind,
                                   !.aiInsights = ScannerInsightsOf(completion)]]
           \/ /\ call.pc = "enhanceResourcesWithAI"
              /\ scanner' = [scanner EXCEPT !.calls[c] = EnterFinally(call, FALSE)]
        /\ UNCHANGED besidesScanner

\* await this.browser.close(); this.browser = null; then the call returns the
\* result, or rejects with what it had thrown or with what close() throws.
ScannerCloseBrowser(c) ==
    LET call == scanner.calls[c]
    IN  /\ call.pc = "closeBrowser"
        /\ \/ scanner' = [scanner EXCEPT
                 !.open = @ \ {call.closing},
                 !.browser = Null,
                 !.calls[c].pc = IF call.thrown THEN "thrown" ELSE "returned"]
           \/ scanner' = [scanner EXCEPT !.calls[c].pc = "thrown",
                                         !.calls[c].thrown = TRUE]
        /\ UNCHANGED besidesScanner

NextScanner ==
    \E c \in 1..MaxScannerCalls :
        \/ ScannerPerformDeepTargetedScan(c)
        \/ ScannerLaunch(c)
        \/ ScannerDeepScanSingleUrl(c)
        \/ ScannerGenerateAIInsights(c)
        \/ ScannerCloseBrowser(c)

SpecScanner ==
    Init /\ [][NextScanner]_vars

\* C29: the navigation loop of deepScanSingleUrl terminates and calls
\* page.goto at most 3 times per URL: every attempt takes a retry or loads the
\* page; a failed attempt takes one retry, and the failure that takes the last
\* one is rethrown and recorded in metadata.errors; a protection page is
\* retried only while more than one attempt is left and is accepted as loaded
\* on the last attempt.
C29_NavigationRetriesBounded ==
    \A c \in 1..MaxScannerCalls :
        LET call == scanner.calls[c]
            loop == call.loop
        IN  /\ loop.gotos <= 3
            /\ loop.retries \in 0..3
            /\ loop.gotos = (3 - loop.retries) + (IF loop.pageLoaded THEN 1 ELSE 0)
            /\ call.pc = "goto" => loop.retries > 0 /\ ~loop.pageLoaded
            /\ loop.thrown <=> loop.retries = 0
            /\ loop.thrown => /\ loop.last = "failed"
                              /\ ~loop.pageLoaded
                              /\ call.pc # "goto"
                              /\ call.errors # <<>>
            /\ loop.last = "protected" =>
                  IF loop.pageLoaded
                  THEN loop.retries = 1 /\ loop.gotos = 3
                  ELSE loop.retries >= 1 /\ call.pc = "goto"
            /\ loop.last = "loaded" => loop.pageLoaded

\* A protection page was shown on all three attempts and accepted on the
\* third; in another run the third attempt failed and was recorded.
C29_Witness ==
    \E c \in 1..MaxScannerCalls :
        LET loop == scanner.calls[c].loop
        IN  loop.gotos = 3 /\ loop.last = "protected" /\ loop.pageLoaded

----------------------------------------------------------------------------
\* Claims on the session after openBrowser

\* The response at position i of stdout answers an openBrowser call with
\* success.
OpenedAt(i) ==
    /\ i \in DOMAIN stdout
    /\ ~stdout[i].isError
    /\ TextReports(stdout[i].text, "Browser opened successfully")

\* C30: whenever openBrowser returns success the session is fully initialised
\* (a connected browser, a context and a page are set): from the success
\* response until the next call has started, also with that call waiting on
\* stdin, isInitialized() holds, so a page operation issued directly after the
\* response does not fail for lack of a session; also when an earlier
\* openBrowser failed after the browser had launched.
C30_OpenBrowserSuccessMeansSession ==
    (InFlight = {} /\ OpenedAt(Len(stdout))) =>
        /\ SessionOpen
        /\ IsInitialized

----------------------------------------------------------------------------
\* Requests in flight at the same time

\* A client that sends tools/list and tools/call requests at any time,
\* several per chunk, without waiting for the responses.
RequestMessages ==
    {m \in Messages({"list"}, {"openBrowser", "getPageTitle"}, {}) :
        m.args.cls = "valid" /\ ~m.args.debug}

ClientSendsRequests ==
    StdinData(RequestMessages, MaxLines, MaxChunk)

NextRequests ==
    \/ ClientSendsRequests
    \/ HandleInput
    \/ RunJob
    \/ BrowserReplies

SpecRequests ==
    Init /\ [][NextRequests]_vars

\* The positions of stdout that hold a response written for line l.
ResponsesTo(l) ==
    {i \in DOMAIN stdout : stdout[i].line = l}

\* The handler of line l has started and has ended.
Completed(l) ==
    /\ l \in 1..nlines
    /\ \A i \in DOMAIN lines : lines[i].line # l
    /\ l \notin InFlight

\* C31: every tools/call and tools/list request gets exactly one response
\* and the response carries the id of its own request, whatever handlers are
\* in flight at the same time: no response has the id of another request, no
\* request has two responses, and a handler that has ended has written one.
C31_OneResponseWithOwnId ==
    /\ \A i \in DOMAIN stdout :
         /\ stdout[i].env = "result"
         /\ stdout[i].id = stdout[i].line
    /\ \A l \in 1..nlines :
         /\ Cardinality(ResponsesTo(l)) <= 1
         /\ Completed(l) <=> ResponsesTo(l) # {}

\* The second request was answered while the first was still in flight, and
\* then the first was answered: each response has its own id.
C31_Witness ==
    /\ Len(stdout) >= 2
    /\ stdout[1].id = 2
    /\ stdout[2].id = 1
    /\ stdout[2].text = <<"Browser opened successfully">>

----------------------------------------------------------------------------
\* Claims on the handshake

\* What a tools/list or tools/call request is answered with while no session
\* is open: the list of the tools, the text of the default case, or the error
\* of the tool that finds no session.
AnswerOf(msg) ==
    IF msg.kind = "list"
      THEN [isError |-> FALSE, text |-> <<"tools/list">>]
    ELSE IF msg.name \notin Registered
      THEN [isError |-> TRUE, text |-> <<"Unknown tool: ", msg.name>>]
    ELSE [isError |-> TRUE, text |-> CatchResult(BrowserErrorOf(msg.name)).text]

\* C32: the dispatcher keeps no handshake state: a tools/list or tools/call
\* request gets the same answer, given by the request alone, before any
\* initialize request as after one; a repeated initialize request is answered
\* like the first; a notifications/initialized message writes nothing and
\* changes nothing.
C32_NoHandshakeState ==
    [][/\ (StartsLine /\ Head(lines).msg.kind = "notif") =>
            UNCHANGED <<state, currentMousePosition, listeners, live, launched,
                        handlers, jobs, stdout, rejected, pendingRejection, proc>>
       /\ (StartsLine /\ Head(lines).msg.kind = "initialize") =>
            /\ Len(stdout') = Len(stdout) + 1
            /\ \A i \in DOMAIN stdout :
                 IsResponseTo(i, "initialize") =>
                    stdout'[Len(stdout')].result = stdout[i].result
       /\ (StartsLine /\ Head(lines).msg.kind \in {"list", "call"}) =>
            /\ Head(lines).line \in DOMAIN handlers'
            /\ stdout' = stdout
       /\ \A id \in InFlight :
            (Responds(id) /\ handlers[id].msg.kind \in {"list", "call"}) =>
               LET response == stdout'[Len(stdout')]
                   answer == AnswerOf(handlers[id].msg)
               IN  /\ response.env = "result"
                   /\ response.isError = answer.isError
                   /\ response.text = answer.text
                   /\ handlers[id].msg.kind = "list" =>
                         response.result.tools = ToolNames ]_vars

\* A tools/list request was answered before the initialize request and
\* another after it, both with the same result; in another run an initialize
\* response follows a notifications/initialized message and an earlier
\* initialize response.
C32_Witness ==
    \E i, j, k \in DOMAIN stdout :
        /\ i < j /\ j < k
        /\ IsResponseTo(i, "tools/list")
        /\ IsResponseTo(j, "initialize")
        /\ IsResponseTo(k, "tools/list")
        /\ stdout[i].result = stdout[k].result

----------------------------------------------------------------------------
\* Claims on the registry and the dispatcher

\* C33: the tool names advertised by the registry are the names the callTool
\* dispatcher has a case for: a call of a registered tool never takes the
\* default case ('Unknown tool'), and a call that does not take it names a
\* registered tool.
C33_RegistryMatchesDispatcher ==
    [][/\ DispatchCases = Registered
       /\ (StartsLine /\ Head(lines).msg.kind = "call") =>
            LET id == Head(lines).line
                name == Head(lines).msg.name
            IN  /\ id \in DOMAIN handlers'
                /\ (/\ handlers'[id].pc = "hi_resume"
                    /\ handlers'[id].result.text = <<"Unknown tool: ", name>>)
                      <=> name \notin Registered
       /\ \A i \in DOMAIN stdout :
            IsResponseTo(i, "tools/list") =>
               {stdout[i].result.tools[k] : k \in DOMAIN stdout[i].result.tools}
                  = DispatchCases ]_vars

\* The tool registered last but one was dispatched to its case and answered
\* with the error of its method, and an unregistered name was answered
\* 'Unknown tool'.
C33_Witness ==
    \E i, j \in DOMAIN stdout :
        /\ stdout[i].text = CatchResult(BrowserErrorOf("mouseDrag")).text
        /\ stdout[j].text = <<"Unknown tool: ", "noSuchTool">>

----------------------------------------------------------------------------
\* Claims on closeBrowser

\* The session is empty: no browser, no context and no page is recorded.
SessionEmpty ==
    state.browser = Null /\ state.context = Null /\ state.page = Null

ClosedAt(i) ==
    ~stdout[i].isError /\ stdout[i].text = <<"Browser closed successfully">>

\* The latest response that reports an opened or a closed browser reports a
\* closed one.
ClosedLast ==
    \E i \in DOMAIN stdout :
        /\ ClosedAt(i)
        /\ \A j \in DOMAIN stdout : j > i => ~OpenedAt(j)

\* C34: closeBrowser on an empty session awaits nothing of a browser (h.b is
\* Null at each of its steps), is answered with success and leaves the session
\* empty, so closing twice ends like closing once; every successful
\* closeBrowser leaves the session empty, and a page-dependent operation that
\* starts after it and before the next successful openBrowser fails.
C34_CloseIdempotent ==
    [][/\ \A id \in InFlight :
            LET h == handlers[id]
            IN  /\ (/\ h.msg.name = "closeBrowser"
                    /\ h.b = Null
                    /\ SessionEmpty
                    /\ id \in DOMAIN handlers'
                    /\ jobs # <<>> /\ Head(jobs) = id /\ lines = <<>>) =>
                       /\ SessionEmpty'
                       /\ handlers'[id].st = "job"
                       /\ handlers'[id].res = "ok"
                       /\ handlers'[id].b = Null
                /\ (Responds(id) /\ h.msg.name = "closeBrowser" /\ h.b = Null) =>
                       /\ SessionEmpty'
                       /\ ~stdout'[Len(stdout')].isError
                       /\ stdout'[Len(stdout')].text = <<"Browser closed successfully">>
                /\ (/\ Responds(id)
                    /\ h.msg.name = "closeBrowser"
                    /\ ~stdout'[Len(stdout')].isError) => SessionEmpty'
       /\ (/\ StartsLine
           /\ Head(lines).msg.name = "closeBrowser"
           /\ SessionEmpty) =>
              /\ handlers'[Head(lines).line].st = "job"
              /\ handlers'[Head(lines).line].res = "ok"
              /\ handlers'[Head(lines).line].b = Null
       /\ (/\ StartsLine
           /\ Head(lines).msg.name \in PageTools
           /\ ClosedLast) =>
              /\ handlers'[Head(lines).line].pc = "ct_resume"
              /\ handlers'[Head(lines).line].res = "fail" ]_vars

\* closeBrowser was answered with success twice in a row on a session that
\* was never opened, and the page operation that followed failed.
C34_Witness ==
    /\ Len(stdout) = 3
    /\ launched = 0
    /\ ClosedAt(1)
    /\ ClosedAt(2)
    /\ stdout[3].isError
    /\ SessionEmpty

----------------------------------------------------------------------------
\* Screenshots

ShotTypes ==
    {"", "element", "viewport", "page", "other"}

ShotSelectors ==
    {"", "#present", "#missing"}

\* A client that opens a browser and takes screenshots, one line at a time.
ShotMessages ==
    {Msg("call", "openBrowser", NoArgs)}
      \cup {Msg("call", "screenshot", [NoArgs EXCEPT !.type = t, !.selector = s]) :
               t \in ShotTypes, s \in ShotSelectors}

ClientSendsShots ==
    /\ InFlight = {}
    /\ StdinData(ShotMessages, MaxShotLines, 1)

NextShot ==
    \/ ClientSendsShots
    \/ HandleInput
    \/ RunJob
    \/ BrowserReplies

SpecShot ==
    Init /\ [][NextShot]_vars

\* The handler of line id is a screenshot call.
IsShot(id) ==
    id \in InFlight /\ handlers[id].msg.name = "screenshot"

\* C35: screenshot captures by scope: with type 'element' and a selector it
\* looks the element up, captures that element, and is answered with an error
\* when there is none; with type 'viewport' it captures the viewport; in
\* every other case (type 'page', another or no type, type 'element' without
\* a selector) it captures the full page.  A success is reported only after
\* the capture of that scope.
C35_ScreenshotByScope ==
    [][/\ (/\ StartsLine
           /\ Head(lines).msg.name = "screenshot"
           /\ SessionOpen) =>
              LET o == Head(lines).msg.args
                  h == handlers'[Head(lines).line]
              IN  /\ h.st = "io"
                  /\ h.op = IF o.type = "element" /\ o.selector # "" THEN "$"
                            ELSE IF o.type = "viewport" THEN "viewport"
                            ELSE "fullPage"
       /\ \A id \in InFlight :
            /\ (/\ IsShot(id)
                /\ handlers[id].op = "$"
                /\ handlers[id].st = "job"
                /\ handlers[id].res = "ok"
                /\ handlers'[id] # handlers[id]) =>
                   IF handlers[id].msg.args.selector = "#present"
                   THEN handlers'[id].op = "element" /\ handlers'[id].st = "io"
                   ELSE handlers'[id].res = "fail" /\ handlers'[id].pc = "ct_resume"
            /\ (IsShot(id) /\ Responds(id)) =>
                   LET o == handlers[id].msg.args
                       response == stdout'[Len(stdout')]
                   IN  /\ (o.type = "element" /\ o.selector = "#missing") => response.isError
                       /\ ~response.isError =>
                            /\ response.text = <<"Screenshot taken successfully">>
                            /\ handlers[id].op =
                                 IF o.type = "element" /\ o.selector # "" THEN "element"
                                 ELSE IF o.type = "viewport" THEN "viewport"
                                 ELSE "fullPage" ]_vars

\* The element of the selector was found and captured, and the call is about
\* to be answered with success.
C35_Witness ==
    \E id \in InFlight :
        /\ IsShot(id)
        /\ handlers[id].op = "element"
        /\ handlers[id].pc = "hi_resume"
        /\ ~handlers[id].result.isError

----------------------------------------------------------------------------
\* getElementHierarchy

\* A document whose root has one descendant on each of n levels.
RECURSIVE Chain(_)
Chain(n) ==
    IF n = 0 THEN <<>> ELSE <<Chain(n - 1)>>

\* The root elements tried: chains, and a root with three children of which
\* the last has descendants on all levels.
Documents ==
    {Chain(n) : n \in 0..MaxDomDepth}
      \cup {<<Chain(0), Chain(1), Chain(MaxDomDepth - 1)>>}

\* The maxDepth arguments tried: left out, -1 and 0..MaxDepthArg.
DepthArgs ==
    {NotGiven} \cup {[given |-> TRUE, value |-> v] : v \in -1..MaxDepthArg}

\* The levels below an element.
RECURSIVE Levels(_)
Levels(element) ==
    IF element = <<>> THEN 0
    ELSE LET below == {Levels(element[i]) : i \in DOMAIN element}
         IN  1 + CHOOSE m \in below : \A n \in below : n <= m

\* The maxDepth that the dispatch case passes to the controller:
\* args.maxDepth || 3, where undefined and 0 are both falsy.
MaxDepthPassed(arg) ==
    IF ~arg.given \/ arg.value = 0 THEN 3 ELSE arg.value

\* traverseElement(element, currentDepth) of the evaluated function: the
\* children are listed while currentDepth < maxDepth or maxDepth is -1; else
\* childrenCount is set when the element has children.
RECURSIVE TraverseElement(_, _, _)
TraverseElement(element, currentDepth, maxDepth) ==
    IF currentDepth < maxDepth \/ maxDepth = -1
    THEN [children |-> [i \in DOMAIN element |->
                           TraverseElement(element[i], currentDepth + 1, maxDepth)],
          childrenCount |-> Undefined]
    ELSE [children |-> <<>>,
          childrenCount |-> IF Len(element) > 0 THEN Len(element) ELSE Undefined]

\* case 'getElementHierarchy' on an open session, up to page.evaluate.
GetElementHierarchy ==
    /\ hierarchy.pc \in {"idle", "returned"}
    /\ \E arg \in DepthArgs, root \in Documents :
         hierarchy' = [HierarchyInit EXCEPT !.pc = "evaluate", !.arg = arg, !.root = root,
                                            !.maxDepth = MaxDepthPassed(arg)]
    /\ UNCHANGED besidesHierarchy

\* page.evaluate settles: the hierarchy of the root element is returned, or
\* the catch of the controller throws and the dispatcher answers with an error.
HierarchyEvaluated ==
    /\ hierarchy.pc = "evaluate"
    /\ \/ hierarchy' = [hierarchy EXCEPT
              !.pc = "returned",
              !.result = TraverseElement(hierarchy.root, 0, hierarchy.maxDepth)]
       \/ hierarchy' = [hierarchy EXCEPT !.pc = "returned", !.isError = TRUE]
    /\ UNCHANGED besidesHierarchy

NextHierarchy ==
    \/ GetElementHierarchy
    \/ HierarchyEvaluated

SpecHierarchy ==
    Init /\ [][NextHierarchy]_vars

\* The levels of the hierarchy on which children are listed.
RECURSIVE ListedLevels(_)
ListedLevels(info) ==
    IF info.children = <<>> THEN 0
    ELSE LET below == {ListedLevels(info.children[i]) : i \in DOMAIN info.children}
         IN  1 + CHOOSE m \in below : \A n \in below : n <= m

\* C36: getElementHierarchy called through the dispatcher descends exactly
\* maxDepth levels below the root for every maxDepth >= 0 (with maxDepth 0 the
\* root lists no children and has only its childrenCount), descends without
\* limit for maxDepth -1, and descends 3 levels only when maxDepth is left out.
C36_DescendsMaxDepthLevels ==
    (hierarchy.pc = "returned" /\ ~hierarchy.isError) =>
        LET arg == hierarchy.arg
            depth == Levels(hierarchy.root)
            listed == ListedLevels(hierarchy.result)
        IN  /\ ~arg.given => listed = Min(3, depth)
            /\ (arg.given /\ arg.value = -1) => listed = depth
            /\ (arg.given /\ arg.value >= 0) => listed = Min(arg.value, depth)
            /\ (arg.given /\ arg.value = 0) =>
                  /\ hierarchy.result.children = <<>>
                  /\ Len(hierarchy.root) > 0 =>
                        hierarchy.result.childrenCount = Len(hierarchy.root)

----------------------------------------------------------------------------
\* PlaywrightScanner of build.sh (the scanner the deployed service is built
\* from): performDeepTargetedScan over several URLs, one after the other.

\* A title is modelled by the set of the words it includes, of those that
\* determineResourceCategory looks for.
LinkTitles ==
    {{"tutorial"}, {"video", "tutorial"}, {"faq"}, {}}

\* pageData.links: a link is skipped when it has no href, an href seen
\* before or a title shorter than three characters.
Links ==
    {[skipped |-> TRUE, title |-> {}]} \cup
    {[skipped |-> FALSE, title |-> t] : t \in LinkTitles}

PageLinks ==
    UNION {[1..n -> Links] : n \in 0..MaxLinks}

DetermineResourceCategory(title) ==
    IF "tutorial" \in title \/ "getting started" \in title THEN "tutorials"
    ELSE IF "video" \in title THEN "videos"
    ELSE IF "training" \in title \/ "course" \in title THEN "training"
    ELSE IF "faq" \in title \/ "question" \in title THEN "faqs"
    ELSE IF "integration" \in title THEN "integrations"
    ELSE "documentation"

RECURSIVE PushLinks(_, _, _)
PushLinks(resources, links, urlType) ==
    IF links = <<>> THEN resources
    ELSE LET link == Head(links)
             category == DetermineResourceCategory(link.title)
         IN  PushLinks(IF link.skipped \/ category \notin DOMAIN resources
                         THEN resources
                         ELSE [resources EXCEPT ![category] = Append(@, urlType)],
                       Tail(links), urlType)

\* processPageData: the page itself goes to `documentation`, every link that
\* is kept to the list of its category.  A resource is modelled by its source.
ProcessPageData(resources, links, urlType) ==
    PushLinks([resources EXCEPT !["documentation"] = Append(@, urlType)],
              links, urlType)

RECURSIVE SumLengths(_, _)
SumLengths(resources, categories) ==
    IF categories = {} THEN 0
    ELSE LET c == CHOOSE c \in categories : TRUE
         IN  Len(resources[c]) + SumLengths(resources, categories \ {c})

\* countResources: Object.values(resources).reduce((total, category) =>
\* total + category.length, 0)
CountResources(resources) ==
    SumLengths(resources, DOMAIN resources)

\* Object.values(urls).filter(Boolean).length
TruthyUrls(urls) ==
    Cardinality({t \in DOMAIN urls : urls[t]})

\* An entry of metadata.errors: the catch that pushed it and the URL type
\* whose scanUrl call was running then ("none" outside of the loop).
ErrorEntry(by, during) ==
    [by |-> by, during |-> during]

\* The for loop over Object.entries(urls) from entry i on: scanUrl is called
\* for the next truthy URL; after the last entry generateAIInsights follows.
LoopFrom(d, i) ==
    LET rest == {j \in i..MaxUrls : d.urls[UrlTypeNames[j]]}
    IN  IF rest = {} THEN [d EXCEPT !.pc = "generateAIInsights", !.at = 0]
        ELSE [d EXCEPT !.pc = "scanUrl", !.page = FALSE,
                       !.at = CHOOSE j \in rest : \A k \in rest : j <= k]

\* catch (error) of performDeepTargetedScan, then its finally.
OuterCatch(d) ==
    [d EXCEPT !.pc = "finally",
              !.metadata.errors = Append(@, ErrorEntry("performDeepTargetedScan",
                  IF d.at = 0 THEN "none" ELSE UrlTypeNames[d.at]))]

\* The lines after the finally: the metadata, then return result.
ReturnResult(d) ==
    [d EXCEPT !.pc = "returned",
              !.metadata.urlsScanned = TruthyUrls(d.urls),
              !.metadata.resourcesFound = CountResources(d.categorizedResources)]

\* performDeepTargetedScan(urls, toolName) is called: chromium.launch is awaited.
DeepScanCall ==
    /\ deepScan.pc = "idle"
    /\ \E urls \in [UrlTypes -> BOOLEAN] :
         deepScan' = [deepScan EXCEPT !.pc = "launch", !.urls = urls]
    /\ UNCHANGED besidesDeepScan

\* chromium.launch settles: the loop starts, or the catch takes the error.
DeepScanLaunch ==
    /\ deepScan.pc = "launch"
    /\ \/ deepScan' = LoopFrom([deepScan EXCEPT !.browser = TRUE], 1)
       \/ deepScan' = OuterCatch(deepScan)
    /\ UNCHANGED besidesDeepScan

\* The try of scanUrl: newContext or newPage throws before `page` is assigned
\* and scanUrl returns after its catch; goto, waitForTimeout or evaluate
\* throws and the catch, then the finally run; or the page is processed.
DeepScanUrl ==
    LET urlType == UrlTypeNames[deepScan.at]
        caught == [deepScan EXCEPT
                     !.failed = @ \cup {urlType},
                     !.metadata.errors = Append(@, ErrorEntry("scanUrl", urlType))]
    IN  /\ deepScan.pc = "scanUrl"
        /\ \/ deepScan' = LoopFrom(caught, deepScan.at + 1)
           \/ deepScan' = [caught EXCEPT !.pc = "closePage", !.page = TRUE]
           \/ \E links \in PageLinks :
                deepScan' = [deepScan EXCEPT
                   !.pc = "closePage", !.page = TRUE,
                   !.categorizedResources = ProcessPageData(@, links, urlType)]
        /\ UNCHANGED besidesDeepScan

\* finally { if (page) await page.close(); } of scanUrl: what close() throws
\* leaves scanUrl and the loop and reaches the catch of performDeepTargetedScan.
DeepScanClosePage ==
    /\ deepScan.pc = "closePage"
    /\ \/ deepScan' = LoopFrom(deepScan, deepScan.at + 1)
       \/ deepScan' = OuterCatch(deepScan)
    /\ UNCHANGED besidesDeepScan

\* generateAIInsights, which is skipped without OPENAI_API_KEY and catches its
\* own errors, changes result.aiInsights alone.
DeepScanInsights ==
    /\ deepScan.pc = "generateAIInsights"
    /\ deepScan' = [deepScan EXCEPT !.pc = "finally"]
    /\ UNCHANGED besidesDeepScan

\* finally { if (browser) await browser.close(); }: the result is returned,
\* or the call rejects with what close() throws.
DeepScanFinally ==
    /\ deepScan.pc = "finally"
    /\ \/ deepScan' = ReturnResult([deepScan EXCEPT !.browser = FALSE])
       \/ /\ deepScan.browser
          /\ deepScan' = [deepScan EXCEPT !.pc = "thrown"]
    /\ UNCHANGED besidesDeepScan

NextDeepScan ==
    \/ DeepScanCall
    \/ DeepScanLaunch
    \/ DeepScanUrl
    \/ DeepScanClosePage
    \/ DeepScanInsights
    \/ DeepScanFinally

SpecDeepScan ==
    Init /\ [][NextDeepScan]_vars

\* The entries of metadata.errors pushed while the scan of `urlType` ran.
EntriesOf(urlType) ==
    {i \in 1..Len(deepScan.metadata.errors) :
       deepScan.metadata.errors[i].during = urlType}

\* C37: at the return of performDeepTargetedScan, metadata.resourcesFound is
\* the total length of the six category lists, metadata.urlsScanned is the
\* number of non-empty URLs given, and every URL whose scan failed has
\* exactly one entry in metadata.errors.
C37_MetadataCountsAtReturn ==
    deepScan.pc = "returned" =>
       /\ deepScan.metadata.resourcesFound =
             CountResources(deepScan.categorizedResources)
       /\ deepScan.metadata.urlsScanned = TruthyUrls(deepScan.urls)
       /\ \A urlType \in deepScan.failed : Cardinality(EntriesOf(urlType)) = 1

\* The two counters alone, which the lines after the finally compute.
DeepScanCountersAtReturn ==
    deepScan.pc = "returned" =>
       /\ deepScan.metadata.resourcesFound =
             CountResources(deepScan.categorizedResources)
       /\ deepScan.metadata.urlsScanned = TruthyUrls(deepScan.urls)

----------------------------------------------------------------------------
\* Claims on the legacy response of a failed command

\* C38: every tool result has one content block; when a legacy command
\* fails, error.message of the response is the whole text of that block,
\* 'Error: <message>' with the 'Suggestion:' line when the error has one, and
\* the response has no member error.suggestion.
C38_LegacyErrorInOneBlock ==
    [][ \A id \in InFlight :
          ( /\ handlers[id].msg.kind = "legacy"
            /\ id \notin DOMAIN handlers'
            /\ Len(stdout') = Len(stdout) + 1
            /\ stdout'[Len(stdout')].line = id
            /\ stdout'[Len(stdout')].env = "legacy" )
          => LET result == handlers[id].result
                 response == stdout'[Len(stdout')]
                 error == BrowserErrorOf(handlers[id].msg.name)
             IN  /\ Len(Content(result)) = 1
                 /\ result.isError =>
                      /\ response.text = result.text
                      /\ response.members = {"message"}
                      /\ result.text[1] = "Error: " =>
                           response.text = <<"Error: ", error.message,
                                             "\nSuggestion: ", error.suggestion>> ]_vars

C38_Witness ==
    \E i \in 1..Len(stdout) :
        /\ stdout[i].env = "legacy"
        /\ stdout[i].isError
        /\ stdout[i].text = <<"Error: ", FailMessage["moveMouse"],
                              "\nSuggestion: ", Suggestion["moveMouse"]>>
        /\ stdout[i].members = {"message"}

====
